---- MODULE Spec2Model ----
(***************************************************************************)
(* Lava Hop (src/main.ts): a WASM-4 platformer.  One call of update() is   *)
(* one frame; the model has one action per frame, which runs the whole     *)
(* update() for the gamepad mask read on that frame.                       *)
(*                                                                         *)
(* Numbers.  The program computes in f32.  The model keeps every f32       *)
(* quantity as an integer count of 1/UNIT pixel (velocities: 1/UNIT pixel  *)
(* per frame); a product or quotient that is not a whole count is cut      *)
(* toward zero.  i32(...) casts cut toward zero as in the program.         *)
(*                                                                         *)
(* Math.random().  The generator belongs to the runtime.  The model draws  *)
(* its values from a deterministic sequence over {0/1000 .. 999/1000}      *)
(* whose seed is chosen in Init; each call takes the next value, which is  *)
(* the previous one plus a fixed step modulo 1.                            *)
(***************************************************************************)
EXTENDS Integers, Sequences, FiniteSets, TLC

\* ------------------------------------------------------------ bounds
\* Seeds of the random sequence that Init chooses among: 0 .. MaxSeed.
MaxSeed == 1
\* Frames (calls of update) explored with the player under control.
MaxFrames == 36
\* Changes of the gamepad mask between consecutive frames in Title/Playing.
MaxPadChanges == 1
\* Frames explored by the specification in which no movement button is used.
MaxIdleFrames == 900
\* gameOverTimer is counted up to this value.
MaxGameOverTimer == 63

\* ------------------------------------------------------------ arithmetic
UNIT == 1000 * 1000

Px(n) == n * UNIT

\* The element of a one-element set.  {F(a) : a \in {e}} is F of the value
\* of e: the statements of the program run one after the other, each on the
\* result of the one before.
Only(S) == CHOOSE x \in S : TRUE

Abs(a) == IF a < 0 THEN -a ELSE a

Min(a, b) == IF a < b THEN a ELSE b

Max(a, b) == IF a > b THEN a ELSE b

\* a / b cut toward zero (b > 0): the i32() cast of a quotient, and the
\* fixed-point value of an f32 quotient.
TruncDiv(a, b) == IF a >= 0 THEN a \div b ELSE -((-a) \div b)

\* a * (n / d) in fixed point.
MulFrac(a, n, d) == TruncDiv(a * n, d)

\* 1000 * sin(i / 10) for i = 0 .. 62 (one period of Math.sin in steps of 0.1)
SinTable ==
   << 0, 100, 199, 296, 389, 479, 565, 644, 717, 783, 841, 891, 932, 964, 985, 997, 1000, 992, 974, 946, 909, 863, 808, 746, 675, 598, 516, 427, 335, 239, 141, 42, -58, -158, -256, -351, -443, -530, -612, -688, -757, -818, -872, -916, -952, -978, -994, -1000, -996, -982, -959, -926, -883, -832, -773, -706, -631, -551, -465, -374, -279, -182, -83 >>

\* Math.sin of a phase kept in 1/1000 radian, in 1/1000.
Sin(phase) == SinTable[((phase % 6283) \div 100) + 1]

\* ------------------------------------------------------------ constants
GRAVITY == 400000
INITIAL_JUMP_FORCE == -5500000
MIN_JUMP_FORCE == -3000000
MAX_JUMP_FORCE == -7000000
JUMP_HOLD_GRAVITY == 250000
MOVE_SPEED == 1800000
TERMINAL_VELOCITY == 7000000
COYOTE_TIME == 6
MAX_PLATFORMS == 20
MAX_JUMP_HOLD_FRAMES == 12
TILE_SIZE == 7
LEVEL_WIDTH == 23
LEVEL_HEIGHT == 27
PLAYER_WIDTH == 8
PLAYER_HEIGHT == 12
initialLavaY == 350000000
LAVA_RISE_SPEED_MIN == 200000
LAVA_RISE_SPEED_MAX == 4000000
LAVA_RUBBER_BAND_DISTANCE == 10000000
MAX_LAVA_DROPS == 10
LAVA_STREAM_X == 140
SCREEN_SIZE == 160

\* velocityX *= GROUND_FRICTION (0.8) / AIR_FRICTION (0.95)
GroundFriction(v) == MulFrac(v, 4, 5)

AirFriction(v) == MulFrac(v, 19, 20)

\* The gamepad mask is the set of the buttons that are down.
BUTTON_1 == "BUTTON_1"
BUTTON_2 == "BUTTON_2"
BUTTON_LEFT == "BUTTON_LEFT"
BUTTON_RIGHT == "BUTTON_RIGHT"

TitleScreen == "TitleScreen"
Playing == "Playing"
GameOver == "GameOver"

Standing == "Standing"
Running == "Running"
JumpSquat == "JumpSquat"
Jumping == "Jumping"
Falling == "Falling"
Landing == "Landing"

\* ------------------------------------------------------------ Math.random
\* The step of the random sequence, in 1/1000: every call adds it, modulo 1.
RandomStep == 617

\* The state of the sequence n calls after s.
Skip(s, n) == (s + n * RandomStep) % 1000

\* The value after s in the random sequence.
NextRandom(s) == Skip(s, 1)

\* The seed of the i-th explored sequence.
SeedOf(i) == (i * 389 + 123) % 1000

\* ------------------------------------------------------------ tile map
levelData ==
   <<
      0, 0, 0, 0, 0, 0, 0, 0, 0, 0, 0, 0, 0, 0, 0, 0, 0, 0, 0, 0, 0, 0, 0,
      0, 0, 0, 0, 0, 0, 0, 0, 0, 0, 0, 0, 0, 0, 0, 0, 0, 0, 0, 0, 0, 0, 0,
      0, 0, 0, 0, 0, 0, 0, 0, 0, 0, 0, 0, 0, 0, 0, 0, 0, 0, 0, 0, 0, 0, 0,
      0, 0, 2, 3, 3, 4, 0, 0, 0, 0, 0, 0, 0, 0, 0, 0, 0, 0, 0, 0, 0, 0, 0,
      0, 0, 0, 0, 0, 0, 0, 0, 0, 0, 0, 0, 0, 0, 0, 0, 0, 0, 0, 0, 0, 0, 0,
      0, 0, 0, 0, 0, 0, 0, 0, 0, 0, 0, 2, 3, 3, 3, 4, 0, 0, 0, 0, 0, 0, 0,
      0, 0, 0, 0, 0, 0, 0, 0, 0, 0, 0, 0, 0, 0, 0, 0, 0, 0, 0, 0, 0, 0, 0,
      0, 0, 0, 0, 0, 0, 2, 3, 3, 4, 0, 0, 0, 0, 0, 0, 0, 0, 0, 0, 0, 0, 0,
      0, 0, 0, 0, 0, 0, 0, 0, 0, 0, 0, 0, 0, 0, 0, 0, 0, 0, 0, 0, 0, 0, 0,
      0, 0, 0, 0, 0, 0, 0, 0, 0, 0, 0, 0, 0, 0, 2, 3, 3, 3, 4, 0, 0, 0, 0,
      0, 0, 0, 0, 0, 0, 0, 0, 0, 0, 0, 0, 0, 0, 0, 0, 0, 0, 0, 0, 0, 0, 0,
      0, 0, 0, 2, 3, 3, 3, 4, 0, 0, 0, 0, 0, 0, 0, 0, 0, 0, 0, 0, 0, 0, 0,
      0, 0, 0, 0, 0, 0, 0, 0, 0, 0, 0, 0, 0, 0, 0, 0, 0, 0, 0, 0, 0, 0, 0,
      0, 0, 0, 0, 0, 0, 0, 0, 0, 0, 0, 0, 2, 3, 3, 3, 3, 4, 0, 0, 0, 0, 0,
      0, 0, 0, 0, 0, 0, 0, 0, 0, 0, 0, 0, 0, 0, 0, 0, 0, 0, 0, 0, 0, 0, 0,
      0, 2, 3, 3, 3, 4, 0, 0, 0, 0, 0, 0, 0, 0, 0, 0, 0, 0, 0, 0, 0, 0, 0,
      0, 0, 0, 0, 0, 0, 0, 0, 0, 0, 0, 0, 0, 0, 0, 0, 0, 0, 0, 0, 0, 0, 0,
      0, 0, 0, 0, 0, 0, 0, 0, 0, 2, 3, 3, 3, 3, 3, 4, 0, 0, 0, 0, 0, 0, 0,
      0, 0, 0, 0, 0, 0, 0, 0, 0, 0, 0, 0, 0, 0, 0, 0, 0, 0, 0, 0, 0, 0, 0,
      0, 0, 0, 0, 0, 0, 0, 0, 0, 0, 0, 0, 0, 0, 0, 0, 0, 0, 0, 0, 0, 0, 0,
      1, 1, 1, 1, 1, 1, 1, 1, 1, 1, 1, 1, 1, 1, 1, 1, 1, 1, 1, 1, 1, 1, 1,
      1, 1, 1, 1, 1, 1, 1, 1, 1, 1, 1, 1, 1, 1, 1, 1, 1, 1, 1, 1, 1, 1, 1,
      1, 1, 1, 1, 1, 1, 1, 1, 1, 1, 1, 1, 1, 1, 1, 1, 1, 1, 1, 1, 1, 1, 1,
      1, 1, 1, 1, 1, 1, 1, 1, 1, 1, 1, 1, 1, 1, 1, 1, 1, 1, 1, 1, 1, 1, 1,
      1, 1, 1, 1, 1, 1, 1, 1, 1, 1, 1, 1, 1, 1, 1, 1, 1, 1, 1, 1, 1, 1, 1,
      1, 1, 1, 1, 1, 1, 1, 1, 1, 1, 1, 1, 1, 1, 1, 1, 1, 1, 1, 1, 1, 1, 1,
      1, 1, 1, 1, 1, 1, 1, 1, 1, 1, 1, 1, 1, 1, 1, 1, 1, 1, 1, 1, 1, 1, 1
   >>

\* A faulty getTileIn that takes the array column by column.
getTileInTransposed(data, x, y) ==
   IF x < 0 \/ y < 0 \/ x >= LEVEL_WIDTH \/ y >= LEVEL_HEIGHT
   THEN 0
   ELSE data[x * LEVEL_WIDTH + y + 1]

\* getTile over a grid given as a row-major sequence.
getTileIn(data, x, y) ==
   IF x < 0 \/ y < 0 \/ x >= LEVEL_WIDTH \/ y >= LEVEL_HEIGHT
   THEN 0
   ELSE data[y * LEVEL_WIDTH + x + 1]

getTile(x, y) == getTileIn(levelData, x, y)

tileToWorldX(tileX) == Px(tileX * TILE_SIZE)

tileToWorldY(tileY) == Px(tileY * TILE_SIZE)

worldToTileX(worldX) == TruncDiv(worldX, Px(TILE_SIZE))

worldToTileY(worldY) == TruncDiv(worldY, Px(TILE_SIZE))

isSolidTile(tileType) == tileType = 1

\* A faulty isPlatformTile whose first range runs one code too far.
isPlatformTileWide(tileType) ==
   \/ (tileType >= 2 /\ tileType <= 5)
   \/ (tileType >= 8 /\ tileType <= 9)
   \/ (tileType >= 12 /\ tileType <= 13)

isPlatformTile(tileType) ==
   \/ (tileType >= 2 /\ tileType <= 4)
   \/ (tileType >= 8 /\ tileType <= 9)
   \/ (tileType >= 12 /\ tileType <= 13)

isJumpThroughTile(tileType) ==
   \/ (tileType >= 5 /\ tileType <= 7)
   \/ (tileType >= 10 /\ tileType <= 11)
   \/ (tileType >= 14 /\ tileType <= 15)

\* new Platform(x, y, width, height, tileTypes, isJumpThrough)
Platform(x, y, width, height, tileTypes, isJumpThrough) ==
   [x |-> x, y |-> y, width |-> width, height |-> height,
    tileTypes |-> tileTypes, isJumpThrough |-> isJumpThrough]

\* The platform initPlatforms pushes for the run of tiles in the columns
\* platformStart .. x-1 of row y: platformTiles holds their types in order.
RunPlatform(data, y, platformStart, x) ==
   LET platformTiles == SubSeq(data, y * LEVEL_WIDTH + platformStart + 1,
                               y * LEVEL_WIDTH + x)
   IN Platform(tileToWorldX(platformStart), tileToWorldY(y),
               Px(Len(platformTiles) * TILE_SIZE), Px(TILE_SIZE),
               platformTiles, isJumpThroughTile(platformTiles[1]))

\* The tiles initPlatforms collects into platforms.
startsRun(tileType) ==
   isPlatformTile(tileType) \/ isSolidTile(tileType)
      \/ isJumpThroughTile(tileType)

\* The columns at or after x of row y that hold such a tile.
runColumns(data, y, x) ==
   {c \in x .. LEVEL_WIDTH - 1 : startsRun(getTileIn(data, c, y))}

\* The column at which the run that starts in column platformStart of row y
\* is pushed: the first column after it with another tile, or the row's end.
runEnd(data, y, platformStart) ==
   CHOOSE x \in platformStart + 1 .. LEVEL_WIDTH :
      /\ ~startsRun(getTileIn(data, x, y))
      /\ \A c \in platformStart .. x - 1 : startsRun(getTileIn(data, c, y))

RECURSIVE scanRow(_, _, _)
\* The inner loop of initPlatforms over the columns x .. LEVEL_WIDTH-1 of row
\* y, one run at a time: the next run starts at the first column that holds
\* a platform tile and is pushed at runEnd.
scanRow(data, y, x) ==
   IF runColumns(data, y, x) = {} THEN <<>>
   ELSE LET platformStart ==
               CHOOSE c \in runColumns(data, y, x) :
                  \A d \in runColumns(data, y, x) : c <= d
        IN <<RunPlatform(data, y, platformStart,
                         runEnd(data, y, platformStart))>>
           \o scanRow(data, y, runEnd(data, y, platformStart))

RECURSIVE scanRows(_, _, _)
\* The outer loop of initPlatforms over the rows first .. last, in order.
scanRows(data, first, last) ==
   IF first > last THEN <<>>
   ELSE IF first = last THEN scanRow(data, first, 0)
   ELSE LET middle == (first + last) \div 2
        IN scanRows(data, first, middle) \o scanRows(data, middle + 1, last)

\* The platform initPlatforms pushes for the tiles collected in
\* platformTiles from column platformStart of row y.
PushedPlatform(y, platformStart, platformTiles) ==
   Platform(tileToWorldX(platformStart), tileToWorldY(y),
            Px(Len(platformTiles) * TILE_SIZE), Px(TILE_SIZE),
            platformTiles, isJumpThroughTile(platformTiles[1]))

RECURSIVE scanColumnsNoFlush(_, _, _, _, _)
\* A faulty inner loop that leaves out the push at the end of the row.
scanColumnsNoFlush(data, y, x, platformStart, platformTiles) ==
   IF x >= LEVEL_WIDTH THEN <<>>
   ELSE LET tile == getTileIn(data, x, y) IN
        IF startsRun(tile)
        THEN scanColumnsNoFlush(data, y, x + 1,
                                IF platformStart = -1 THEN x
                                ELSE platformStart,
                                Append(platformTiles, tile))
        ELSE IF platformStart # -1
        THEN <<PushedPlatform(y, platformStart, platformTiles)>>
             \o scanColumnsNoFlush(data, y, x + 1, -1, <<>>)
        ELSE scanColumnsNoFlush(data, y, x + 1, -1, platformTiles)

RECURSIVE scanColumns(_, _, _, _, _)
\* The inner loop of initPlatforms tile by tile, from column x of row y with
\* platformStart and platformTiles as the loop holds them, and the push at
\* the end of the row: the platforms pushed, in order.
scanColumns(data, y, x, platformStart, platformTiles) ==
   IF x >= LEVEL_WIDTH
   THEN (IF platformStart # -1
         THEN <<PushedPlatform(y, platformStart, platformTiles)>>
         ELSE <<>>)
   ELSE LET tile == getTileIn(data, x, y) IN
        IF startsRun(tile)
        THEN scanColumns(data, y, x + 1,
                         IF platformStart = -1 THEN x ELSE platformStart,
                         Append(platformTiles, tile))
        ELSE IF platformStart # -1
        THEN <<PushedPlatform(y, platformStart, platformTiles)>>
             \o scanColumns(data, y, x + 1, -1, <<>>)
        ELSE scanColumns(data, y, x + 1, -1, platformTiles)

RECURSIVE scanGrid(_, _, _)
\* The outer loop of initPlatforms over the rows first .. last of any grid,
\* in order.
scanGrid(data, first, last) ==
   IF first > last THEN <<>>
   ELSE IF first = last THEN scanColumns(data, first, 0, -1, <<>>)
   ELSE LET middle == (first + last) \div 2
        IN scanGrid(data, first, middle) \o scanGrid(data, middle + 1, last)

\* The platform list initPlatforms derives from levelData.
tilemapPlatforms == scanRows(levelData, 0, LEVEL_HEIGHT - 1)

\* A faulty initPlatforms that clears the list and resets the tracking but
\* leaves the scan out.
initPlatformsUnscanned(w) ==
   [w EXCEPT !.platforms = <<>>, !.highestPlatformY = LEVEL_HEIGHT]

\* initPlatforms(): clears the list, resets highestPlatformY, scans the map.
initPlatforms(w) ==
   [w EXCEPT !.platforms = tilemapPlatforms,
             !.highestPlatformY = LEVEL_HEIGHT]

\* ------------------------------------------------------------ generation
RECURSIVE middleTiles(_, _, _, _, _)
\* The loop of generatePlatform that pushes the middle tiles i .. width-2,
\* one random call each: below 0.15 the first variant, below 0.3 the second.
middleTiles(s, i, platformWidth, isJumpThrough, acc) ==
   IF i >= platformWidth - 1 THEN acc
   ELSE LET tile == IF s < 150 THEN (IF isJumpThrough THEN 14 ELSE 12)
                    ELSE IF s < 300 THEN (IF isJumpThrough THEN 15 ELSE 13)
                    ELSE (IF isJumpThrough THEN 6 ELSE 3)
        IN middleTiles(NextRandom(s), i + 1, platformWidth, isJumpThrough,
                       Append(acc, tile))

\* The width generatePlatform draws: 3 + floor(random * 4).
platformWidthOf(s) == 3 + ((s * 4) \div 1000)

\* A faulty platformXOf that leaves no margin on the right for the lava
\* stream.
platformXOfNoMargin(s, platformWidth) ==
   1 + ((s * (LEVEL_WIDTH - platformWidth - 1)) \div 1000)

\* The tile column generatePlatform draws for a platform of that width:
\* 1 + floor(random * (LEVEL_WIDTH - platformWidth - rightMarginTiles - 1)).
platformXOf(s, platformWidth) ==
   1 + ((s * (LEVEL_WIDTH - platformWidth - 3 - 1)) \div 1000)

\* The jump-through decision of generatePlatform; the random call is made
\* only when platformsGenerated > 5.
isJumpThroughOf(platformsGenerated, s) == platformsGenerated > 5 /\ s > 500

\* generatePlatform(yPos)
generatePlatform(w, yPos) ==
   LET s0 == w.rng
       platformWidth == platformWidthOf(s0)
       s1 == NextRandom(s0)
       platformX == platformXOf(s1, platformWidth)
       s2 == NextRandom(s1)
       isJumpThrough == isJumpThroughOf(w.platformsGenerated, s2)
       s3 == IF w.platformsGenerated > 5 THEN NextRandom(s2) ELSE s2
       left == IF s3 < 200 THEN (IF isJumpThrough THEN 10 ELSE 8)
               ELSE (IF isJumpThrough THEN 5 ELSE 2)
       s4 == NextRandom(s3)
       mid == middleTiles(s4, 1, platformWidth, isJumpThrough, <<left>>)
       s5 == Skip(s4, platformWidth - 2)
       right == IF s5 < 200 THEN (IF isJumpThrough THEN 11 ELSE 9)
                ELSE (IF isJumpThrough THEN 7 ELSE 4)
       platformTiles == Append(mid, right)
       p == Platform(tileToWorldX(platformX), tileToWorldY(yPos),
                     Px(platformWidth * TILE_SIZE), Px(TILE_SIZE),
                     platformTiles, isJumpThrough)
   IN [w EXCEPT !.platforms = Append(w.platforms, p),
                !.highestPlatformY =
                    IF yPos < w.highestPlatformY THEN yPos
                    ELSE w.highestPlatformY,
                !.platformsGenerated = w.platformsGenerated + 1,
                !.rng = NextRandom(s5)]

RECURSIVE generateLoop(_, _, _)
\* for (y = startY; y > highestVisibleTile - 15; y -= 2 + floor(random * 3))
generateLoop(w, y, highestVisibleTile) ==
   IF y > highestVisibleTile - 15
   THEN LET g == generatePlatform(w, y)
            step == 2 + ((g.rng * 3) \div 1000)
        IN generateLoop([g EXCEPT !.rng = NextRandom(g.rng)], y - step,
                        highestVisibleTile)
   ELSE w

\* A faulty needsPlatforms with the comparison turned round.
needsPlatformsInverted(highestVisibleTile, highestPlatformY) ==
   highestVisibleTile - 8 > highestPlatformY

\* The condition under which checkGeneratePlatforms generates.
needsPlatforms(highestVisibleTile, highestPlatformY) ==
   highestVisibleTile - 8 < highestPlatformY

\* A faulty checkGeneratePlatforms that starts with a gap of 2 tiles.
checkGeneratePlatformsGapTwo(w) ==
   LET highestVisibleTile == worldToTileY(w.cameraY) IN
   IF needsPlatforms(highestVisibleTile, w.highestPlatformY)
   THEN generateLoop(w, w.highestPlatformY - 2, highestVisibleTile)
   ELSE w

\* checkGeneratePlatforms()
checkGeneratePlatforms(w) ==
   LET highestVisibleTile == worldToTileY(w.cameraY) IN
   IF needsPlatforms(highestVisibleTile, w.highestPlatformY)
   THEN generateLoop(w, w.highestPlatformY - 3, highestVisibleTile)
   ELSE w

\* A faulty isOffscreen without the buffer of 50 pixels below the screen.
isOffscreenNoBuffer(p, cameraY) == p.y > cameraY + Px(SCREEN_SIZE)

\* The test of cleanupOffscreenPlatforms for one platform.
isOffscreen(p, cameraY) == p.y > cameraY + Px(SCREEN_SIZE + 50)

RECURSIVE spliceOffscreen(_, _, _)
\* The loop of cleanupOffscreenPlatforms from index i down to the first
\* platform: platforms.splice(i, 1) for each platform that is too low.
spliceOffscreen(list, i, cameraY) ==
   IF i < 1 THEN list
   ELSE IF isOffscreen(list[i], cameraY)
   THEN spliceOffscreen(SubSeq(list, 1, i - 1) \o
                        SubSeq(list, i + 1, Len(list)), i - 1, cameraY)
   ELSE spliceOffscreen(list, i - 1, cameraY)

\* cleanupOffscreenPlatforms()
cleanupOffscreenPlatforms(w) ==
   [w EXCEPT !.platforms =
       spliceOffscreen(w.platforms, Len(w.platforms), w.cameraY)]

\* ------------------------------------------------------------ camera
\* A faulty updateCamera that follows a falling player as slowly as a rising
\* one.
updateCameraSmooth(w) ==
   LET targetCameraY == w.player.y - Px(SCREEN_SIZE \div 2) IN
   [w EXCEPT !.cameraY = w.cameraY + TruncDiv(targetCameraY - w.cameraY, 10)]

\* updateCamera()
updateCamera(w) ==
   LET targetCameraY == w.player.y - Px(SCREEN_SIZE \div 2) IN
   IF targetCameraY > w.cameraY
   THEN [w EXCEPT !.cameraY = targetCameraY]
   ELSE [w EXCEPT !.cameraY =
            w.cameraY + TruncDiv(targetCameraY - w.cameraY, 10)]

\* ------------------------------------------------------------ lava drops
\* new LavaDrop(y) with the six random values that follow s
LavaDrop(y, s) ==
   LET s2 == NextRandom(s)
       s3 == NextRandom(s2)
       s4 == NextRandom(s3)
       s5 == NextRandom(s4)
       s6 == NextRandom(s5)
   IN [x |-> Px(LAVA_STREAM_X) + s * 10000 - Px(5),
       y |-> y,
       size |-> Px(3) + s2 * 5000,
       speed |-> 1500000 + s3 * 2000,
       xVelocity |-> (s4 - 500) * 800,
       wobblePhase |-> (s5 * 628) \div 100,
       wobbleAmount |-> 300000 + s6 * 500]

\* The respawn of LavaDrop.update with the seven random values that follow s.
respawnDrop(s) ==
   LET s2 == NextRandom(s)
       s3 == NextRandom(s2)
       s4 == NextRandom(s3)
       s5 == NextRandom(s4)
       s6 == NextRandom(s5)
       s7 == NextRandom(s6)
   IN [x |-> Px(LAVA_STREAM_X) + s2 * 16000 - Px(8),
       y |-> -Px(10) - s * 20000,
       size |-> Px(3) + s3 * 5000,
       speed |-> 1500000 + s4 * 2000,
       xVelocity |-> (s5 - 500) * 800,
       wobblePhase |-> (s6 * 628) \div 100,
       wobbleAmount |-> 300000 + s7 * 500]

\* LavaDrop.update() of drop i
updateDrop(w, i) ==
   LET d == w.lavaDrops[i]
       y1 == d.y + d.speed
       phase == d.wobblePhase + 100
       x1 == d.x + d.xVelocity + TruncDiv(Sin(phase) * d.wobbleAmount, 1000)
       x2 == IF Abs(x1 - Px(LAVA_STREAM_X)) > Px(20)
             THEN x1 + TruncDiv(Px(LAVA_STREAM_X) - x1, 20)
             ELSE x1
       moved == [d EXCEPT !.x = x2, !.y = y1, !.wobblePhase = phase]
   IN IF y1 > w.lavaY - w.cameraY
      THEN LET big == d.size > Px(5)
               splash == big /\ w.rng < 400
               s == IF big THEN NextRandom(w.rng) ELSE w.rng
           IN [w EXCEPT !.lavaDrops[i] = respawnDrop(s),
                        !.rng = Skip(s, 7),
                        !.tones = IF splash THEN Append(w.tones, "splash")
                                  ELSE w.tones]
      ELSE [w EXCEPT !.lavaDrops[i] = moved]

RECURSIVE updateDropRange(_, _, _)
\* The iterations first .. last of the loop over the drops, in order: the
\* first half of them, then the second half.
updateDropRange(w, first, last) ==
   IF first > last THEN w
   ELSE IF first = last THEN updateDrop(w, first)
   ELSE LET middle == (first + last) \div 2
        IN Only({updateDropRange(a, middle + 1, last) :
                   a \in {updateDropRange(w, first, middle)}})

\* for (i = 0; i < lavaDrops.length; i++) lavaDrops[i].update()
updateDrops(w) == updateDropRange(w, 1, Len(w.lavaDrops))

RECURSIVE pushDrops(_, _, _, _)
\* The loops that fill lavaDrops with the drops i .. count-1, spacing apart
\* in y; s is the random state before drop 0, and each drop takes 6 values.
pushDrops(s, i, count, spacing) ==
   IF i >= count THEN <<>>
   ELSE <<LavaDrop(Px(i * spacing), Skip(s, 6 * i))>>
        \o pushDrops(s, i + 1, count, spacing)

\* initLavaDrops(): MAX_LAVA_DROPS drops, SCREEN_SIZE / MAX_LAVA_DROPS apart.
initLavaDrops(w) ==
   [w EXCEPT !.lavaDrops = pushDrops(w.rng, 0, MAX_LAVA_DROPS,
                                     SCREEN_SIZE \div MAX_LAVA_DROPS),
             !.rng = Skip(w.rng, 6 * MAX_LAVA_DROPS)]

\* The start-up loop: MAX_LAVA_DROPS / 2 drops for the title screen.
titleLavaDrops(s) ==
   pushDrops(s, 0, MAX_LAVA_DROPS \div 2,
             SCREEN_SIZE \div (MAX_LAVA_DROPS \div 2))

\* ------------------------------------------------------------ lava pool
\* A faulty rubberBandSpeed that interpolates upward from the maximum speed
\* instead of the minimum.
rubberBandSpeedFromMax(lavaScreenDist) ==
   LET linearFactor ==
          Min(TruncDiv(lavaScreenDist - LAVA_RUBBER_BAND_DISTANCE,
                       LAVA_RUBBER_BAND_DISTANCE \div 1000), 1000)
       rubberBandFactor ==
          (linearFactor * linearFactor * linearFactor) \div 100
   IN IF lavaScreenDist > LAVA_RUBBER_BAND_DISTANCE * 15
      THEN (LAVA_RISE_SPEED_MAX * 3) \div 2
      ELSE LAVA_RISE_SPEED_MAX +
           (rubberBandFactor *
              ((LAVA_RISE_SPEED_MAX - LAVA_RISE_SPEED_MIN) \div 100000))
           \div 100

\* The speed updateLava sets while rubber-banding (lavaScreenDist above
\* LAVA_RUBBER_BAND_DISTANCE): the cubic interpolation, or the super speed.
rubberBandSpeed(lavaScreenDist) ==
   LET linearFactor ==   \* in 1/1000
          Min(TruncDiv(lavaScreenDist - LAVA_RUBBER_BAND_DISTANCE,
                       LAVA_RUBBER_BAND_DISTANCE \div 1000), 1000)
       rubberBandFactor ==   \* in 1/10^7
          (linearFactor * linearFactor * linearFactor) \div 100
   IN IF lavaScreenDist > LAVA_RUBBER_BAND_DISTANCE * 15
      THEN (LAVA_RISE_SPEED_MAX * 3) \div 2
      ELSE LAVA_RISE_SPEED_MIN +
           (rubberBandFactor *
              ((LAVA_RISE_SPEED_MAX - LAVA_RISE_SPEED_MIN) \div 100000))
           \div 100

\* A faulty lavaSpeedFor that goes back to the base speed only when the lava
\* has reached the bottom of the screen.
lavaSpeedForLateReset(lavaScreenDist) ==
   IF lavaScreenDist > 0
   THEN rubberBandSpeed(lavaScreenDist)
   ELSE LAVA_RISE_SPEED_MIN

\* A faulty lavaSpeedFor that lets the pool rest while it is near the screen.
lavaSpeedForResting(lavaScreenDist) ==
   IF lavaScreenDist > LAVA_RUBBER_BAND_DISTANCE
   THEN rubberBandSpeed(lavaScreenDist)
   ELSE 0

\* The speed updateLava sets for the distance lavaScreenDist.
lavaSpeedFor(lavaScreenDist) ==
   IF lavaScreenDist > LAVA_RUBBER_BAND_DISTANCE
   THEN rubberBandSpeed(lavaScreenDist)
   ELSE LAVA_RISE_SPEED_MIN

\* The distance of the lava from the bottom of the screen.
lavaScreenDistOf(lavaY, cameraY) == lavaY - (cameraY + Px(SCREEN_SIZE))

\* The warning tones of updateLava.
lavaTones(lavaScreenDist, lavaY) ==
   IF lavaScreenDist > LAVA_RUBBER_BAND_DISTANCE
   THEN IF lavaScreenDist > LAVA_RUBBER_BAND_DISTANCE * 15
        THEN (IF TruncDiv(lavaY, UNIT) % 15 = 0 THEN <<"alarm">> ELSE <<>>)
        ELSE (IF TruncDiv(lavaY, UNIT) % 30 = 0 THEN <<"warning">> ELSE <<>>)
   ELSE <<>>

\* updateLava() up to and including lavaY -= currentLavaSpeed
riseLava(w) ==
   LET lavaScreenDist == lavaScreenDistOf(w.lavaY, w.cameraY)
       speed == lavaSpeedFor(lavaScreenDist)
   IN [w EXCEPT !.currentLavaSpeed = speed,
                !.lavaY = w.lavaY - speed,
                !.tones = w.tones \o lavaTones(lavaScreenDist, w.lavaY)]

\* updateLava()
updateLava(w) == Only({updateDrops(a) : a \in {riseLava(w)}})

\* ------------------------------------------------------------ player
\* new Player()
NewPlayer ==
   [x |-> Px((LEVEL_WIDTH \div 2) * TILE_SIZE), y |-> Px(100),
    width |-> Px(PLAYER_WIDTH), height |-> Px(PLAYER_HEIGHT),
    velocityX |-> 0, velocityY |-> 0, isOnGround |-> FALSE,
    animState |-> Standing, animFrame |-> 0, animCounter |-> 0,
    facingLeft |-> FALSE, coyoteTimeCounter |-> 0, landingTimer |-> 0,
    jumpSquatTimer |-> 0, isJumping |-> FALSE, jumpHoldTimer |-> 0,
    jumpReleased |-> TRUE, prevJumpButton |-> FALSE]

\* checkCollision: do the two boxes overlap
checkCollision(x1, y1, w1, h1, x2, y2, w2, h2) ==
   x1 < x2 + w2 /\ x1 + w1 > x2 /\ y1 < y2 + h2 /\ y1 + h1 > y2

\* updatePhysics: horizontal movement and friction
moveHorizontal(p, gamepad) ==
   IF BUTTON_LEFT \in gamepad
   THEN [p EXCEPT !.velocityX = -MOVE_SPEED, !.facingLeft = TRUE]
   ELSE IF BUTTON_RIGHT \in gamepad
   THEN [p EXCEPT !.velocityX = MOVE_SPEED, !.facingLeft = FALSE]
   ELSE LET v == IF p.isOnGround THEN GroundFriction(p.velocityX)
                 ELSE AirFriction(p.velocityX)
        IN [p EXCEPT !.velocityX = IF Abs(v) < UNIT \div 10 THEN 0 ELSE v]

\* A faulty jumpButtons that starts a jump squat wherever the player is.
jumpButtonsAnywhere(p, gamepad) ==
   LET jumpButtonPressed == BUTTON_1 \in gamepad
       jumpButtonJustPressed == jumpButtonPressed /\ ~p.prevJumpButton
       jumpButtonJustReleased == ~jumpButtonPressed /\ p.prevJumpButton
       p1 == IF jumpButtonJustPressed /\ p.jumpSquatTimer = 0
             THEN [p EXCEPT !.jumpSquatTimer = 3, !.animState = JumpSquat,
                            !.jumpReleased = FALSE]
             ELSE p
       p2 == IF jumpButtonJustReleased /\ p1.isJumping /\ ~p1.jumpReleased
             THEN [p1 EXCEPT !.jumpReleased = TRUE]
             ELSE p1
   IN [p2 EXCEPT !.prevJumpButton = jumpButtonPressed]

\* updatePhysics: jump initiation, release detection, button bookkeeping
jumpButtons(p, gamepad) ==
   LET jumpButtonPressed == BUTTON_1 \in gamepad
       jumpButtonJustPressed == jumpButtonPressed /\ ~p.prevJumpButton
       jumpButtonJustReleased == ~jumpButtonPressed /\ p.prevJumpButton
       p1 == IF /\ jumpButtonJustPressed
                /\ (p.isOnGround \/ p.coyoteTimeCounter > 0)
                /\ p.jumpSquatTimer = 0
             THEN [p EXCEPT !.jumpSquatTimer = 3, !.animState = JumpSquat,
                            !.jumpReleased = FALSE]
             ELSE p
       p2 == IF jumpButtonJustReleased /\ p1.isJumping /\ ~p1.jumpReleased
             THEN [p1 EXCEPT !.jumpReleased = TRUE]
             ELSE p1
   IN [p2 EXCEPT !.prevJumpButton = jumpButtonPressed]

\* updatePhysics: the jump squat countdown and the jump it ends in
jumpSquat(w) ==
   LET p == w.player IN
   IF p.jumpSquatTimer > 0
   THEN IF p.jumpSquatTimer - 1 = 0
        THEN [w EXCEPT !.player =
                 [p EXCEPT !.jumpSquatTimer = 0,
                           !.velocityY = INITIAL_JUMP_FORCE,
                           !.isOnGround = FALSE,
                           !.coyoteTimeCounter = 0,
                           !.animState = Jumping,
                           !.isJumping = TRUE,
                           !.jumpHoldTimer = 0],
                      !.tones = Append(w.tones, "jump")]
        ELSE [w EXCEPT !.player.jumpSquatTimer = p.jumpSquatTimer - 1]
   ELSE w

\* MIN_JUMP_FORCE + (MAX_JUMP_FORCE - MIN_JUMP_FORCE) * jumpHoldTimer / MAX
targetForceOf(jumpHoldTimer) ==
   MIN_JUMP_FORCE +
   TruncDiv((MAX_JUMP_FORCE - MIN_JUMP_FORCE) * jumpHoldTimer,
            MAX_JUMP_HOLD_FRAMES)

\* A faulty jumpGravity in which a held jump button doubles the gravity of
\* a jump.
jumpGravityHeavyHold(p, gamepad) ==
   LET jumpButtonPressed == BUTTON_1 \in gamepad IN
   IF p.isJumping
   THEN LET v == p.velocityY + GRAVITY +
                 (IF jumpButtonPressed THEN GRAVITY ELSE 0)
        IN IF v >= 0
           THEN [p EXCEPT !.velocityY = v, !.isJumping = FALSE,
                          !.animState = Falling]
           ELSE [p EXCEPT !.velocityY = v]
   ELSE IF ~p.isOnGround
   THEN [p EXCEPT !.velocityY = p.velocityY + GRAVITY]
   ELSE p

\* updatePhysics: variable jump height and gravity
jumpGravity(p, gamepad) ==
   LET jumpButtonPressed == BUTTON_1 \in gamepad IN
   IF p.isJumping
   THEN LET held == /\ jumpButtonPressed
                    /\ ~p.jumpReleased
                    /\ p.jumpHoldTimer < MAX_JUMP_HOLD_FRAMES
            timer == IF held THEN p.jumpHoldTimer + 1 ELSE p.jumpHoldTimer
            vHold == p.velocityY + JUMP_HOLD_GRAVITY
            v == IF held
                 THEN (IF targetForceOf(timer) < vHold
                       THEN targetForceOf(timer) ELSE vHold)
                 ELSE p.velocityY + GRAVITY
        IN IF v >= 0
           THEN [p EXCEPT !.velocityY = v, !.jumpHoldTimer = timer,
                          !.isJumping = FALSE, !.animState = Falling]
           ELSE [p EXCEPT !.velocityY = v, !.jumpHoldTimer = timer]
   ELSE IF ~p.isOnGround
   THEN [p EXCEPT !.velocityY = p.velocityY + GRAVITY]
   ELSE p

\* A faulty clampVelocity that leaves every velocity as it is.
clampVelocityOff(p) == p

\* updatePhysics: clamp terminal velocity
clampVelocity(p) ==
   IF p.velocityY > TERMINAL_VELOCITY
   THEN [p EXCEPT !.velocityY = TERMINAL_VELOCITY]
   ELSE p

\* updatePhysics: update position, reset the grounded state
integrate(p) ==
   [p EXCEPT !.x = p.x + p.velocityX, !.y = p.y + p.velocityY,
             !.isOnGround = FALSE]

\* The landing that both kinds of platform apply.
landOn(w, platform, wasOnGround) ==
   [w EXCEPT !.player.y = platform.y - w.player.height,
             !.player.velocityY = 0,
             !.player.isOnGround = TRUE,
             !.player.isJumping = FALSE,
             !.player.jumpHoldTimer = 0,
             !.player.jumpReleased = TRUE,
             !.tones = IF ~wasOnGround THEN Append(w.tones, "land")
                       ELSE w.tones]

\* The one-way test of a jump-through platform.
landsOnJumpThrough(p, platform, oldY) ==
   /\ oldY + p.height <= platform.y
   /\ p.y + p.height > platform.y
   /\ p.velocityY > 0

\* 0 = left, 1 = right, 2 = top, 3 = bottom: the smallest overlap, the
\* earlier direction winning a tie.
collisionDirOf(p, platform) ==
   LET overlapLeft == p.x + p.width - platform.x
       overlapRight == platform.x + platform.width - p.x
       overlapTop == p.y + p.height - platform.y
       overlapBottom == platform.y + platform.height - p.y
       m1 == IF overlapRight < overlapLeft THEN overlapRight ELSE overlapLeft
       d1 == IF overlapRight < overlapLeft THEN 1 ELSE 0
       m2 == IF overlapTop < m1 THEN overlapTop ELSE m1
       d2 == IF overlapTop < m1 THEN 2 ELSE d1
   IN IF overlapBottom < m2 THEN 3 ELSE d2

\* The resolution against a regular (solid) platform.
resolveSolid(w, platform, oldX, oldY, wasOnGround) ==
   LET p == w.player
       collisionDir == collisionDirOf(p, platform)
       wasInside == checkCollision(oldX, oldY, p.width, p.height,
                                   platform.x, platform.y,
                                   platform.width, platform.height)
   IN IF collisionDir = 0 /\ p.velocityX > 0 /\ ~wasInside
      THEN [w EXCEPT !.player.x = platform.x - p.width,
                     !.player.velocityX = 0]
      ELSE IF collisionDir = 1 /\ p.velocityX < 0 /\ ~wasInside
      THEN [w EXCEPT !.player.x = platform.x + platform.width,
                     !.player.velocityX = 0]
      ELSE IF collisionDir = 2 /\ p.velocityY > 0
      THEN landOn(w, platform, wasOnGround)
      ELSE IF collisionDir = 3 /\ p.velocityY < 0
      THEN [w EXCEPT !.player.y = platform.y + platform.height,
                     !.player.velocityY = 0]
      ELSE w

\* The body of the platform collision loop for one platform.
collidePlatform(w, platform, oldX, oldY, wasOnGround) ==
   LET p == w.player IN
   IF checkCollision(p.x, p.y, p.width, p.height,
                     platform.x, platform.y, platform.width, platform.height)
   THEN IF platform.isJumpThrough
        THEN (IF landsOnJumpThrough(p, platform, oldY)
              THEN landOn(w, platform, wasOnGround)
              ELSE w)
        ELSE resolveSolid(w, platform, oldX, oldY, wasOnGround)
   ELSE w

RECURSIVE collidePlatformRange(_, _, _, _, _, _)
\* The iterations first .. last of the platform collision loop, in order:
\* the first half of them, then the second half.
collidePlatformRange(w, first, last, oldX, oldY, wasOnGround) ==
   IF first > last THEN w
   ELSE IF first = last
   THEN collidePlatform(w, w.platforms[first], oldX, oldY, wasOnGround)
   ELSE LET middle == (first + last) \div 2
        IN Only({collidePlatformRange(a, middle + 1, last,
                                      oldX, oldY, wasOnGround) :
                   a \in {collidePlatformRange(w, first, middle,
                                               oldX, oldY, wasOnGround)}})

\* for (i = 0; i < platforms.length; i++) ...
collidePlatforms(w, oldX, oldY, wasOnGround) ==
   collidePlatformRange(w, 1, Len(w.platforms), oldX, oldY, wasOnGround)

\* A faulty standsOn that holds only for a player who is moving down.
standsOnFalling(p, platform) ==
   LET feetY == p.y + p.height
       playerCenterX == p.x + p.width \div 2
   IN /\ Abs(feetY - platform.y) <= Px(5)
      /\ playerCenterX >= platform.x
      /\ playerCenterX <= platform.x + platform.width
      /\ p.velocityY > 0

\* The test of the second ground scan for one platform (tolerance 5).
standsOn(p, platform) ==
   LET feetY == p.y + p.height
       playerCenterX == p.x + p.width \div 2
   IN /\ Abs(feetY - platform.y) <= Px(5)
      /\ playerCenterX >= platform.x
      /\ playerCenterX <= platform.x + platform.width
      /\ p.velocityY >= 0

\* The index of the first platform the player stands on (the scan breaks
\* there), 0 if none.
platformBelow(p, platforms) ==
   LET found == {i \in 1 .. Len(platforms) : standsOn(p, platforms[i])}
   IN IF found = {} THEN 0
      ELSE CHOOSE i \in found : \A j \in found : i <= j

\* The tile row probed one pixel below the feet.
probeTileY(p) == worldToTileY(p.y + p.height + Px(1))

\* The tile-based ground signal.
onTileGroundOf(p) ==
   LET belowTile == getTile(worldToTileX(p.x + p.width \div 2), probeTileY(p))
   IN isSolidTile(belowTile) \/ isPlatformTile(belowTile)

\* A faulty snapY that leaves the player where the fall has taken it.
snapYKept(p, platforms) == p.y

\* The y the player is snapped to when grounded: the platform found by the
\* scan if any, else the probed tile row.
snapY(p, platforms) ==
   LET i == platformBelow(p, platforms) IN
   IF i # 0 THEN platforms[i].y - p.height
   ELSE tileToWorldY(probeTileY(p)) - p.height

\* The start of the landing animation, tested on the velocity the snap has
\* already set to zero.
landingSquash(p) ==
   IF p.velocityY > Px(3)
   THEN [p EXCEPT !.landingTimer = 5, !.animState = Landing]
   ELSE p

\* updatePhysics: ground detection, snapping and the start of coyote time
groundDetect(w) ==
   LET p == w.player
       onPlatform == platformBelow(p, w.platforms) # 0
       onGround == onTileGroundOf(p) \/ onPlatform
   IN IF onGround /\ p.velocityY >= 0
      THEN IF ~p.isOnGround
           THEN LET snapped == [p EXCEPT !.y = snapY(p, w.platforms),
                                         !.velocityY = 0,
                                         !.isOnGround = TRUE,
                                         !.isJumping = FALSE,
                                         !.jumpHoldTimer = 0,
                                         !.jumpReleased = TRUE]
                IN [w EXCEPT !.player = landingSquash(snapped),
                             !.tones = Append(w.tones, "land")]
           ELSE [w EXCEPT !.player.y = snapY(p, w.platforms),
                          !.player.velocityY = 0]
      ELSE IF p.isOnGround
      THEN [w EXCEPT !.player.coyoteTimeCounter = COYOTE_TIME,
                     !.player.isOnGround = FALSE]
      ELSE w

\* updatePhysics: manage the coyote time counter
coyoteStep(p) ==
   IF ~p.isOnGround /\ p.coyoteTimeCounter > 0
   THEN [p EXCEPT !.coyoteTimeCounter = p.coyoteTimeCounter - 1]
   ELSE p

\* A faulty screenBounds that moves the player back and keeps its speed.
screenBoundsKeepSpeed(p) ==
   IF p.x < 0
   THEN [p EXCEPT !.x = 0]
   ELSE IF p.x + p.width > Px(SCREEN_SIZE)
   THEN [p EXCEPT !.x = Px(SCREEN_SIZE) - p.width]
   ELSE p

\* updatePhysics: screen boundaries
screenBounds(p) ==
   IF p.x < 0
   THEN [p EXCEPT !.x = 0, !.velocityX = 0]
   ELSE IF p.x + p.width > Px(SCREEN_SIZE)
   THEN [p EXCEPT !.x = Px(SCREEN_SIZE) - p.width, !.velocityX = 0]
   ELSE p

\* updatePhysics up to the clamp of the velocity: buttons, jump squat,
\* variable jump height and gravity.
accelerate(w, gamepad) ==
   LET w1 == [w EXCEPT !.player =
                 jumpButtons(moveHorizontal(w.player, gamepad), gamepad)]
       w2 == jumpSquat(w1)
   IN [w2 EXCEPT !.player = clampVelocity(jumpGravity(w2.player, gamepad))]

\* updatePhysics: store the old position and grounded state, move, reset
\* the grounded state and run the platform collision loop.
moveAndCollide(w) ==
   collidePlatforms([w EXCEPT !.player = integrate(w.player)],
                    w.player.x, w.player.y, w.player.isOnGround)

\* updatePhysics after ground detection: coyote time, screen boundaries.
finishPhysics(w) ==
   [w EXCEPT !.player = screenBounds(coyoteStep(w.player))]

\* Player.updatePhysics(gamepad)
updatePhysics(w, gamepad) ==
   Only({finishPhysics(c) :
           c \in {groundDetect(b) :
                    b \in {moveAndCollide(a) :
                             a \in {accelerate(w, gamepad)}}}})

\* Player.updateAnimation()
updateAnimation(p) ==
   IF p.landingTimer > 0
   THEN [p EXCEPT !.landingTimer = p.landingTimer - 1,
                  !.animState =
                     IF p.landingTimer - 1 = 0
                     THEN (IF Abs(p.velocityX) > UNIT \div 10
                           THEN Running ELSE Standing)
                     ELSE Landing]
   ELSE IF p.jumpSquatTimer > 0
   THEN [p EXCEPT !.animState = JumpSquat]
   ELSE LET state ==
               IF p.isOnGround
               THEN (IF Abs(p.velocityX) > UNIT \div 10
                     THEN Running ELSE Standing)
               ELSE IF p.velocityY < 0 THEN Jumping
               ELSE IF p.velocityY > 0 THEN Falling
               ELSE p.animState
            counter == p.animCounter + 1
        IN IF state = Running /\ counter >= 6
           THEN [p EXCEPT !.animState = state, !.animCounter = 0,
                          !.animFrame = (p.animFrame + 1) % 2]
           ELSE [p EXCEPT !.animState = state, !.animCounter = counter]

\* Player.update(gamepad)
playerUpdate(w, gamepad) ==
   Only({[a EXCEPT !.player = updateAnimation(a.player)] :
           a \in {updatePhysics(w, gamepad)}})

\* ------------------------------------------------------------ game flow
\* startGame()
startGame(w) ==
   LET w1 == initLavaDrops([w EXCEPT !.gameState = Playing,
                                     !.lavaY = Px(250),
                                     !.currentLavaSpeed =
                                        LAVA_RISE_SPEED_MIN \div 5])
   IN [w1 EXCEPT !.tones = Append(w1.tones, "start")]

\* A faulty stateAfterReset that always returns to the title screen.
stateAfterResetTitle(gameState) == TitleScreen

\* The state resetGame moves to: GameOver from Playing, else TitleScreen.
stateAfterReset(gameState) ==
   IF gameState = Playing THEN GameOver ELSE TitleScreen

\* resetGame(), called from the place named cause
resetGame(w, cause) ==
   LET w1 == [w EXCEPT !.player.x = Px((LEVEL_WIDTH \div 2) * TILE_SIZE),
                       !.player.y = Px(100),
                       !.player.velocityX = 0,
                       !.player.velocityY = 0,
                       !.player.isOnGround = FALSE,
                       !.cameraY = 0,
                       !.lavaY = initialLavaY,
                       !.currentLavaSpeed = 0,
                       !.platforms = <<>>]
       w2 == initLavaDrops(initPlatforms(w1))
   IN [w2 EXCEPT !.gameState = stateAfterReset(w.gameState),
                 !.gameOverTimer =
                    IF w.gameState = Playing THEN 0 ELSE w.gameOverTimer,
                 !.showRetryPrompt =
                    IF w.gameState = Playing THEN FALSE
                    ELSE w.showRetryPrompt,
                 !.tones = Append(w2.tones, "death"),
                 !.resets = Append(w2.resets, cause)]

\* checkLavaCollision: the player touches the lava pool
touchesPool(p, lavaY) == p.y + p.height > lavaY

\* checkLavaCollision: the circle-rectangle test of one drop.  The squares
\* are taken in 1/10000 pixel.
touchesDrop(p, drop) ==
   LET dropCenterX == drop.x
       dropCenterY == drop.y + drop.size \div 2
       dropRadius == drop.size \div 2
       closestX == Max(p.x, Min(dropCenterX, p.x + p.width))
       closestY == Max(p.y, Min(dropCenterY, p.y + p.height))
       distanceX == TruncDiv(dropCenterX - closestX, 100)
       distanceY == TruncDiv(dropCenterY - closestY, 100)
       radius == dropRadius \div 100
   IN /\ Abs(distanceX) < radius
      /\ Abs(distanceY) < radius
      /\ distanceX * distanceX < radius * radius - distanceY * distanceY

\* checkLavaCollision: iteration i of the loop over the drops; the loop
\* reads the length and the drop from the list as it is in that iteration.
checkDrop(w, i) ==
   IF i <= Len(w.lavaDrops) /\ touchesDrop(w.player, w.lavaDrops[i])
   THEN resetGame(w, "drop")
   ELSE w

RECURSIVE checkDropRange(_, _, _)
\* The iterations first .. last of that loop, in order: the first half of
\* them, then the second half.
checkDropRange(w, first, last) ==
   IF first > last THEN w
   ELSE IF first = last THEN checkDrop(w, first)
   ELSE LET middle == (first + last) \div 2
        IN Only({checkDropRange(a, middle + 1, last) :
                   a \in {checkDropRange(w, first, middle)}})

\* checkLavaCollision: the loop over the drops.  A reset inside the loop
\* replaces the list by one of MAX_LAVA_DROPS drops.
checkDrops(w) ==
   checkDropRange(w, 1, Max(Len(w.lavaDrops), MAX_LAVA_DROPS))

\* A faulty checkPool that tests the player's head instead of the feet.
checkPoolAtHead(w) ==
   IF w.player.y > w.lavaY THEN resetGame(w, "pool") ELSE w

\* checkLavaCollision: the test against the lava pool
checkPool(w) ==
   IF touchesPool(w.player, w.lavaY) THEN resetGame(w, "pool") ELSE w

\* checkLavaCollision()
checkLavaCollision(w) == Only({checkDrops(a) : a \in {checkPool(w)}})

\* A faulty TitleScreen branch that starts the game while a button is down.
updateTitleOnHeld(w, gamepad, justPressed) ==
   Only({updateDrops(c) :
           c \in {playerUpdate(b, gamepad) :
                    b \in {updateCamera(a) :
                             a \in {IF gamepad # {} THEN startGame(w)
                                    ELSE w}}}})

\* update(): the TitleScreen branch
updateTitle(w, gamepad, justPressed) ==
   Only({updateDrops(c) :
           c \in {playerUpdate(b, gamepad) :
                    b \in {updateCamera(a) :
                             a \in {IF justPressed # {} THEN startGame(w)
                                    ELSE w}}}})

\* update(): the Playing branch up to and including updateLava()
updatePlayingToLava(w, gamepad) ==
   Only({updateLava(b) :
           b \in {playerUpdate(a, gamepad) : a \in {updateCamera(w)}}})

\* update(): the Playing branch
updatePlaying(w, gamepad) ==
   Only({cleanupOffscreenPlatforms(c) :
           c \in {checkGeneratePlatforms(b) :
                    b \in {checkLavaCollision(a) :
                             a \in {updatePlayingToLava(w, gamepad)}}}})

\* A faulty retryPromptDue that is one frame early.
retryPromptDueAtSixty(timer) == timer >= 60

\* update(): is the retry prompt due at this value of gameOverTimer
retryPromptDue(timer) == timer > 60

\* A faulty updateGameOver that keeps the lava pool rising.
updateGameOverRising(w, justPressed) ==
   LET w1 == [w EXCEPT !.gameOverTimer = w.gameOverTimer + 1]
       w2 == IF retryPromptDue(w1.gameOverTimer) /\ ~w1.showRetryPrompt
             THEN [w1 EXCEPT !.showRetryPrompt = TRUE]
             ELSE w1
       w3 == IF w2.showRetryPrompt /\ justPressed # {}
             THEN resetGame(w2, "retry")
             ELSE w2
   IN Only({updateLava(a) : a \in {w3}})

\* update(): the GameOver branch
updateGameOver(w, justPressed) ==
   LET w1 == [w EXCEPT !.gameOverTimer = w.gameOverTimer + 1]
       w2 == IF retryPromptDue(w1.gameOverTimer) /\ ~w1.showRetryPrompt
             THEN [w1 EXCEPT !.showRetryPrompt = TRUE]
             ELSE w1
       w3 == IF w2.showRetryPrompt /\ justPressed # {}
             THEN resetGame(w2, "retry")
             ELSE w2
   IN Only({updateDrops(a) : a \in {w3}})

\* update() for the gamepad mask read on this frame
update(w, gamepad) ==
   LET justPressed == gamepad \cap ((gamepad \cup w.prevGamepad) \
                                    (gamepad \cap w.prevGamepad))
   IN Only({[b EXCEPT !.prevGamepad = gamepad] :
              b \in {IF a.gameState = TitleScreen
                     THEN updateTitle(a, gamepad, justPressed)
                     ELSE IF a.gameState = Playing
                     THEN updatePlaying(a, gamepad)
                     ELSE updateGameOver(a, justPressed) :
                       a \in {[w EXCEPT !.tones = <<>>, !.resets = <<>>]}}})

\* drawGameOverScreen: the height shown, i32(-player.y / 10)
shownHeight(p) == TruncDiv(-p.y, Px(10))

\* ------------------------------------------------------------ state
VARIABLES
   gameState,          \* TitleScreen, Playing or GameOver
   gameOverTimer,
   showRetryPrompt,
   prevGamepad,        \* the mask of the previous frame
   cameraY,
   lavaY,
   currentLavaSpeed,
   highestPlatformY,   \* a tile row
   platformsGenerated,
   platforms,          \* the platform list, in order
   lavaDrops,          \* the drop pool, in order
   player,
   rng,                \* the state of the random sequence
   tones,              \* the tones played during the last frame
   resets,             \* the resetGame calls of the last frame, by call site
   frame,              \* frames run with the player under control
   padChanges,         \* changes of the mask so far in Title/Playing
   hold,               \* jump trials: frames the jump button is held
   twin,               \* jump trials: a second player, holding one frame more
   peak,               \* jump trials: the least y of player so far
   twinPeak,           \* jump trials: the least y of twin so far
   queryX,             \* tile queries: the column asked for
   queryY,             \* tile queries: the row asked for
   tileRead,           \* tile queries: what getTile returned, -1 before
   drawn               \* tile grids: the tiles drawn at (queryX, queryY)

vars == <<gameState, gameOverTimer, showRetryPrompt, prevGamepad, cameraY,
          lavaY, currentLavaSpeed, highestPlatformY, platformsGenerated,
          platforms, lavaDrops, player, rng, tones, resets, frame,
          padChanges, hold, twin, peak, twinPeak, queryX, queryY,
          tileRead, drawn>>

\* The variables that only the jump trials use.
trialVars == <<hold, twin, peak, twinPeak>>

\* The variables that only the tile queries use.
tileVars == <<queryX, queryY, tileRead, drawn>>

\* The program's globals as one record.
World ==
   [gameState |-> gameState, gameOverTimer |-> gameOverTimer,
    showRetryPrompt |-> showRetryPrompt, prevGamepad |-> prevGamepad,
    cameraY |-> cameraY, lavaY |-> lavaY,
    currentLavaSpeed |-> currentLavaSpeed,
    highestPlatformY |-> highestPlatformY,
    platformsGenerated |-> platformsGenerated, platforms |-> platforms,
    lavaDrops |-> lavaDrops, player |-> player, rng |-> rng,
    tones |-> tones, resets |-> resets]

\* The globals after the module's top-level code has run, for seed s.
StartWorld(s) ==
   [gameState |-> TitleScreen, gameOverTimer |-> 0,
    showRetryPrompt |-> FALSE, prevGamepad |-> {},
    cameraY |-> 0, lavaY |-> initialLavaY, currentLavaSpeed |-> 0,
    highestPlatformY |-> LEVEL_HEIGHT, platformsGenerated |-> 0,
    platforms |-> tilemapPlatforms, lavaDrops |-> titleLavaDrops(s),
    player |-> NewPlayer, rng |-> Skip(s, 6 * (MAX_LAVA_DROPS \div 2)),
    tones |-> <<>>, resets |-> <<>>]

\* The variables take the fields of n.
Becomes(n) ==
   /\ gameState' = n.gameState
   /\ gameOverTimer' = n.gameOverTimer
   /\ showRetryPrompt' = n.showRetryPrompt
   /\ prevGamepad' = n.prevGamepad
   /\ cameraY' = n.cameraY
   /\ lavaY' = n.lavaY
   /\ currentLavaSpeed' = n.currentLavaSpeed
   /\ highestPlatformY' = n.highestPlatformY
   /\ platformsGenerated' = n.platformsGenerated
   /\ platforms' = n.platforms
   /\ lavaDrops' = n.lavaDrops
   /\ player' = n.player
   /\ rng' = n.rng
   /\ tones' = n.tones
   /\ resets' = n.resets

Init ==
   \E i \in 0 .. MaxSeed :
      \E n \in {StartWorld(SeedOf(i))} :
      /\ gameState = n.gameState
      /\ gameOverTimer = n.gameOverTimer
      /\ showRetryPrompt = n.showRetryPrompt
      /\ prevGamepad = n.prevGamepad
      /\ cameraY = n.cameraY
      /\ lavaY = n.lavaY
      /\ currentLavaSpeed = n.currentLavaSpeed
      /\ highestPlatformY = n.highestPlatformY
      /\ platformsGenerated = n.platformsGenerated
      /\ platforms = n.platforms
      /\ lavaDrops = n.lavaDrops
      /\ player = n.player
      /\ rng = n.rng
      /\ tones = n.tones
      /\ resets = n.resets
      /\ frame = 0
      /\ padChanges = 0
      /\ hold = 0
      /\ twin = n.player
      /\ peak = n.player.y
      /\ twinPeak = n.player.y
      /\ queryX = 0
      /\ queryY = 0
      /\ tileRead = -1
      /\ drawn = <<>>

\* The gamepad masks the frames are run with.
Pads == {{}, {BUTTON_1}, {BUTTON_LEFT}, {BUTTON_RIGHT}}

\* The masks of a player who uses no movement button.
IdlePads == {{}, {BUTTON_2}}

\* A frame of update() in TitleScreen or Playing with mask pad.
PlayFrame(pad) ==
   /\ gameState \in {TitleScreen, Playing}
   /\ frame < MaxFrames
   /\ pad # prevGamepad => padChanges < MaxPadChanges
   /\ \E n \in {update(World, pad)} : Becomes(n)
   /\ frame' = frame + 1
   /\ padChanges' = IF pad # prevGamepad THEN padChanges + 1 ELSE padChanges
   /\ UNCHANGED trialVars
   /\ UNCHANGED tileVars

\* A frame of update() in GameOver with mask pad.
GameOverFrame(pad) ==
   /\ gameState = GameOver
   /\ gameOverTimer < MaxGameOverTimer
   /\ \E n \in {update(World, pad)} : Becomes(n)
   /\ UNCHANGED <<frame, padChanges>>
   /\ UNCHANGED trialVars
   /\ UNCHANGED tileVars

Next ==
   \/ \E pad \in Pads : PlayFrame(pad)
   \/ \E pad \in Pads : GameOverFrame(pad)

Spec == Init /\ [][Next]_vars

\* A frame in TitleScreen of a player who starts the game at once with
\* BUTTON_2, releasing it first when it is still down.
IdleTitleFrame ==
   /\ gameState = TitleScreen
   /\ frame < MaxIdleFrames
   /\ \E n \in {update(World, IF prevGamepad = {} THEN {BUTTON_2} ELSE {})} :
         Becomes(n)
   /\ frame' = frame + 1
   /\ UNCHANGED padChanges
   /\ UNCHANGED trialVars
   /\ UNCHANGED tileVars

\* A frame in Playing with no button down.
IdlePlayingFrame ==
   /\ gameState = Playing
   /\ frame < MaxIdleFrames
   /\ \E n \in {update(World, {})} : Becomes(n)
   /\ frame' = frame + 1
   /\ UNCHANGED padChanges
   /\ UNCHANGED trialVars
   /\ UNCHANGED tileVars

\* A frame in GameOver with BUTTON_2 down or not.
IdleGameOverFrame(pad) ==
   /\ gameState = GameOver
   /\ gameOverTimer < MaxGameOverTimer
   /\ \E n \in {update(World, pad)} : Becomes(n)
   /\ UNCHANGED <<frame, padChanges>>
   /\ UNCHANGED trialVars
   /\ UNCHANGED tileVars

NextIdle ==
   \/ IdleTitleFrame
   \/ IdlePlayingFrame
   \/ \E pad \in IdlePads : IdleGameOverFrame(pad)

\* The game of a player who starts it and then stands still.
SpecIdle == Init /\ [][NextIdle]_vars


\* The number of frames a player uses the buttons before standing still.
MaxLiveFrames == 4

\* A frame in TitleScreen or Playing of a player who still uses the buttons.
LivePlayFrame(pad) == frame < MaxLiveFrames /\ PlayFrame(pad)

NextLive ==
   \/ \E pad \in Pads : LivePlayFrame(pad)
   \/ IdlePlayingFrame

\* The runtime runs one more frame of a game that is being played.  Such a
\* step is possible exactly when IdlePlayingFrame is, and every step of
\* IdlePlayingFrame is one.
RunsFrame == gameState = Playing /\ frame < MaxIdleFrames /\ frame' = frame + 1

\* The game of a player who uses the buttons for some frames and then lets
\* go of them for good.  The runtime calls update() on every frame, so the
\* frames of a game that is being played never stop coming.
SpecLive == Init /\ [][NextLive]_vars /\ WF_frame(RunsFrame)

----------------------------------------------------------------------------
\* The game of a player who stands still and uses the jump button only when
\* the lava has come close.

\* The jump button is used when the lava pool is at most this many pixels
\* below the player's feet.
MaxLavaGap == 1
\* Times the jump button goes down or up in such a game.
MaxLatePadChanges == 1

\* A frame in Playing with the jump button down or up.
LateJumpFrame(pad) ==
   /\ gameState = Playing
   /\ frame < MaxIdleFrames
   /\ BUTTON_1 \in pad
         => lavaY - (player.y + player.height) <= Px(MaxLavaGap)
   /\ (BUTTON_1 \in pad) # (BUTTON_1 \in prevGamepad)
         => padChanges < MaxLatePadChanges
   /\ \E n \in {update(World, pad)} : Becomes(n)
   /\ frame' = frame + 1
   /\ padChanges' = IF (BUTTON_1 \in pad) # (BUTTON_1 \in prevGamepad)
                     THEN padChanges + 1 ELSE padChanges
   /\ UNCHANGED trialVars
   /\ UNCHANGED tileVars

NextLate ==
   \/ IdleTitleFrame
   \/ \E pad \in {{}, {BUTTON_1}} : LateJumpFrame(pad)
   \/ \E pad \in IdlePads : IdleGameOverFrame(pad)

SpecLate == Init /\ [][NextLate]_vars


\* The values Math.random() takes in the model, in thousandths: 0 up to but
\* not including 1.
Draws == 0 .. 999

\* The number of generatePlatform calls in a row that are looked at.
MaxGenerated == 3

\* The globals right after start-up or right after a reset that followed a
\* game with twelve generated platforms, the random sequence at any value.
InitGen ==
   \E s \in Draws, generated \in {0, 12} :
      \E n \in {[StartWorld(s) EXCEPT !.platformsGenerated = generated]} :
      /\ gameState = n.gameState
      /\ gameOverTimer = n.gameOverTimer
      /\ showRetryPrompt = n.showRetryPrompt
      /\ prevGamepad = n.prevGamepad
      /\ cameraY = n.cameraY
      /\ lavaY = n.lavaY
      /\ currentLavaSpeed = n.currentLavaSpeed
      /\ highestPlatformY = n.highestPlatformY
      /\ platformsGenerated = n.platformsGenerated
      /\ platforms = n.platforms
      /\ lavaDrops = n.lavaDrops
      /\ player = n.player
      /\ rng = n.rng
      /\ tones = n.tones
      /\ resets = n.resets
      /\ frame = 0
      /\ padChanges = 0
      /\ hold = 0
      /\ twin = n.player
      /\ peak = n.player.y
      /\ twinPeak = n.player.y
      /\ queryX = 0
      /\ queryY = 0
      /\ tileRead = -1
      /\ drawn = <<>>

\* One call generatePlatform(y) of the loop of checkGeneratePlatforms, three
\* rows above the highest platform.
GenerateOne ==
   /\ Len(platforms) < Len(tilemapPlatforms) + MaxGenerated
   /\ \E n \in {generatePlatform(World, highestPlatformY - 3)} : Becomes(n)
   /\ UNCHANGED <<frame, padChanges>>
   /\ UNCHANGED trialVars
   /\ UNCHANGED tileVars

NextGen == GenerateOne

\* generatePlatform for every value of the random sequence.
SpecGen == InitGen /\ [][NextGen]_vars


\* How far outside the level the tile queries go, in tiles.
MaxTileMargin == 2

\* A tile query for a column and a row inside the level or up to
\* MaxTileMargin tiles outside it, at start-up.
InitTile ==
   \E x \in -MaxTileMargin .. LEVEL_WIDTH - 1 + MaxTileMargin,
      y \in -MaxTileMargin .. LEVEL_HEIGHT - 1 + MaxTileMargin :
      \E n \in {StartWorld(SeedOf(0))} :
      /\ gameState = n.gameState
      /\ gameOverTimer = n.gameOverTimer
      /\ showRetryPrompt = n.showRetryPrompt
      /\ prevGamepad = n.prevGamepad
      /\ cameraY = n.cameraY
      /\ lavaY = n.lavaY
      /\ currentLavaSpeed = n.currentLavaSpeed
      /\ highestPlatformY = n.highestPlatformY
      /\ platformsGenerated = n.platformsGenerated
      /\ platforms = n.platforms
      /\ lavaDrops = n.lavaDrops
      /\ player = n.player
      /\ rng = n.rng
      /\ tones = n.tones
      /\ resets = n.resets
      /\ frame = 0
      /\ padChanges = 0
      /\ hold = 0
      /\ twin = n.player
      /\ peak = n.player.y
      /\ twinPeak = n.player.y
      /\ queryX = x
      /\ queryY = y
      /\ tileRead = -1
      /\ drawn = <<>>

\* The call getTile(queryX, queryY).
ReadTile ==
   /\ tileRead = -1
   /\ tileRead' = getTile(queryX, queryY)
   /\ UNCHANGED <<gameState, gameOverTimer, showRetryPrompt, prevGamepad,
                  cameraY, lavaY, currentLavaSpeed, highestPlatformY,
                  platformsGenerated, platforms, lavaDrops, player, rng,
                  tones, resets, frame, padChanges, queryX, queryY,
                  drawn>>
   /\ UNCHANGED trialVars

NextTile == ReadTile

\* getTile for queries inside and outside the level.
SpecTile == InitTile /\ [][NextTile]_vars

----------------------------------------------------------------------------
\* initPlatforms over tile grids other than levelData.

\* The number of tiles drawn into an empty grid.
MaxDrawn == 4

\* The tile codes drawn: empty, solid, a platform tile, jump-through tiles.
DrawnCodes == {0, 1, 4, 6, 10}

\* The empty grid with the tiles drawn in row y from column x on.
GridWith(tiles, x, y) ==
   [i \in 1 .. LEVEL_WIDTH * LEVEL_HEIGHT |->
      IF /\ (i - 1) \div LEVEL_WIDTH = y
         /\ (i - 1) % LEVEL_WIDTH >= x
         /\ (i - 1) % LEVEL_WIDTH < x + Len(tiles)
      THEN tiles[((i - 1) % LEVEL_WIDTH) - x + 1]
      ELSE 0]

\* The grid of the state.
Grid == GridWith(drawn, queryX, queryY)

\* Before initPlatforms: the platform list is empty, and MaxDrawn tiles are
\* drawn at the start or at the end of the first or of the last row.
InitScan ==
   \E tiles \in [1 .. MaxDrawn -> DrawnCodes],
      x \in {0, LEVEL_WIDTH - MaxDrawn}, y \in {0, LEVEL_HEIGHT - 1} :
      \E n \in {StartWorld(SeedOf(0))} :
      /\ gameState = n.gameState
      /\ gameOverTimer = n.gameOverTimer
      /\ showRetryPrompt = n.showRetryPrompt
      /\ prevGamepad = n.prevGamepad
      /\ cameraY = n.cameraY
      /\ lavaY = n.lavaY
      /\ currentLavaSpeed = n.currentLavaSpeed
      /\ highestPlatformY = n.highestPlatformY
      /\ platformsGenerated = n.platformsGenerated
      /\ platforms = <<>>
      /\ lavaDrops = n.lavaDrops
      /\ player = n.player
      /\ rng = n.rng
      /\ tones = n.tones
      /\ resets = n.resets
      /\ frame = 0
      /\ padChanges = 0
      /\ hold = 0
      /\ twin = n.player
      /\ peak = n.player.y
      /\ twinPeak = n.player.y
      /\ queryX = x
      /\ queryY = y
      /\ tileRead = -1
      /\ drawn = tiles

\* The call initPlatforms() over the grid of the state.
ScanGrid ==
   /\ frame = 0
   /\ platforms' = scanGrid(Grid, 0, LEVEL_HEIGHT - 1)
   /\ highestPlatformY' = LEVEL_HEIGHT
   /\ frame' = 1
   /\ UNCHANGED <<gameState, gameOverTimer, showRetryPrompt, prevGamepad,
                  cameraY, lavaY, currentLavaSpeed, platformsGenerated,
                  lavaDrops, player, rng, tones, resets, padChanges>>
   /\ UNCHANGED trialVars
   /\ UNCHANGED tileVars

NextScan == ScanGrid

SpecScan == InitScan /\ [][NextScan]_vars

----------------------------------------------------------------------------
\* The tile predicates over every value of a u8.

TileCodes == 0 .. 255

\* The answers of the three predicates for one tile as a number: 1 for
\* isSolidTile, 2 for isPlatformTile, 4 for isJumpThroughTile, added up.
classBits(tileType) ==
   (IF isSolidTile(tileType) THEN 1 ELSE 0)
      + (IF isPlatformTile(tileType) THEN 2 ELSE 0)
      + (IF isJumpThroughTile(tileType) THEN 4 ELSE 0)

\* One tile of any code is drawn; the predicates have not been asked.
InitClass ==
   \E tileType \in TileCodes :
      \E n \in {StartWorld(SeedOf(0))} :
      /\ gameState = n.gameState
      /\ gameOverTimer = n.gameOverTimer
      /\ showRetryPrompt = n.showRetryPrompt
      /\ prevGamepad = n.prevGamepad
      /\ cameraY = n.cameraY
      /\ lavaY = n.lavaY
      /\ currentLavaSpeed = n.currentLavaSpeed
      /\ highestPlatformY = n.highestPlatformY
      /\ platformsGenerated = n.platformsGenerated
      /\ platforms = n.platforms
      /\ lavaDrops = n.lavaDrops
      /\ player = n.player
      /\ rng = n.rng
      /\ tones = n.tones
      /\ resets = n.resets
      /\ frame = 0
      /\ padChanges = 0
      /\ hold = 0
      /\ twin = n.player
      /\ peak = n.player.y
      /\ twinPeak = n.player.y
      /\ queryX = 0
      /\ queryY = 0
      /\ tileRead = -1
      /\ drawn = <<tileType>>

\* The calls isSolidTile, isPlatformTile and isJumpThroughTile for the tile.
ClassifyTile ==
   /\ tileRead = -1
   /\ tileRead' = classBits(drawn[1])
   /\ UNCHANGED <<gameState, gameOverTimer, showRetryPrompt, prevGamepad,
                  cameraY, lavaY, currentLavaSpeed, highestPlatformY,
                  platformsGenerated, platforms, lavaDrops, player, rng,
                  tones, resets, frame, padChanges, queryX, queryY, drawn>>
   /\ UNCHANGED trialVars

NextClass == ClassifyTile

SpecClass == InitClass /\ [][NextClass]_vars


\* ------------------------------------------------------------ jump trials
\* The jump trials start in the middle of a game, high above the tilemap,
\* where every platform is one that generatePlatform has made: solid or
\* jump-through, 3 to 6 tiles wide, in a column from 1 on, the rows 2 to 4
\* apart, the first six of them solid.  The player stands on (or falls
\* towards) the floor platform of row -20, presses the jump button on the
\* first frame and holds it for hold frames; twin does the same and holds it
\* one frame longer.

\* The longest hold of the jump button that is tried.
MaxHold == 15
\* Frames of a trial.
MaxTrialFrames == 64
\* The height in tile rows from which the player of the falling trial falls.
DropRows == 12

\* The tile types generatePlatform gives a platform of that many tiles when
\* every random choice falls on the standard tile.
standardTiles(tiles, isJumpThrough) ==
   [i \in 1 .. tiles |->
      IF i = 1 THEN (IF isJumpThrough THEN 5 ELSE 2)
      ELSE IF i = tiles THEN (IF isJumpThrough THEN 7 ELSE 4)
      ELSE (IF isJumpThrough THEN 6 ELSE 3)]

\* The platform generatePlatform(row) makes in that column with that width.
generatedPlatform(row, column, tiles, isJumpThrough) ==
   Platform(tileToWorldX(column), tileToWorldY(row),
            Px(tiles * TILE_SIZE), Px(TILE_SIZE),
            standardTiles(tiles, isJumpThrough), isJumpThrough)

\* The platforms below the floor, the floor (row -20, x 56 .. 98), and the
\* platforms above row -25, which are off to the right (x 98 .. 119).
laddersAndFloor(middle) ==
   <<generatedPlatform(-4, 1, 4, FALSE), generatedPlatform(-6, 14, 3, FALSE),
     generatedPlatform(-8, 1, 4, FALSE), generatedPlatform(-11, 14, 3, FALSE),
     generatedPlatform(-14, 1, 4, FALSE), generatedPlatform(-17, 14, 3, FALSE),
     generatedPlatform(-20, 8, 6, FALSE)>>
   \o middle \o
   <<generatedPlatform(-28, 14, 3, FALSE), generatedPlatform(-31, 14, 3, TRUE),
     generatedPlatform(-34, 14, 3, FALSE), generatedPlatform(-37, 14, 3, TRUE),
     generatedPlatform(-40, 14, 3, FALSE), generatedPlatform(-43, 14, 3, TRUE),
     generatedPlatform(-46, 14, 3, FALSE)>>

\* Nothing above the floor in the player's column.
OpenScene ==
   laddersAndFloor(<<generatedPlatform(-23, 14, 3, TRUE),
                     generatedPlatform(-25, 1, 4, FALSE)>>)

\* A jump-through platform (x 49 .. 84) three rows above the floor.
ThroughScene ==
   laddersAndFloor(<<generatedPlatform(-23, 7, 5, TRUE),
                     generatedPlatform(-25, 14, 3, FALSE)>>)

\* The same with a solid platform (x 56 .. 84) two rows above the
\* jump-through one.
CappedScene ==
   laddersAndFloor(<<generatedPlatform(-23, 7, 5, TRUE),
                     generatedPlatform(-25, 8, 4, FALSE)>>)

\* The x at which the player's centre is over every platform of its column,
\* and the x at which its box overlaps the platforms above the floor by two
\* pixels while its centre is beyond their right end.
CentreX == Px(73)
EdgeX == Px(82)

\* The globals in the middle of a game: the player at x, dropRows rows
\* above the floor of the scene, at rest, the camera where updateCamera has
\* left it for a player who came from above, the platforms below the screen
\* cleaned up, the lava far below the screen.
TrialWorld(scene, x, dropRows) ==
   LET y == tileToWorldY(-20 - dropRows) - Px(PLAYER_HEIGHT)
       camera == y - Px(SCREEN_SIZE \div 2)
       w == startGame(StartWorld(SeedOf(0)))
   IN cleanupOffscreenPlatforms(
         [w EXCEPT !.player = [NewPlayer EXCEPT !.x = x, !.y = y,
                                                !.isOnGround = (dropRows = 0)],
                   !.cameraY = camera,
                   !.lavaY = camera + Px(SCREEN_SIZE) + Px(200),
                   !.currentLavaSpeed = (LAVA_RISE_SPEED_MAX * 3) \div 2,
                   !.platforms = scene,
                   !.highestPlatformY = -46,
                   !.platformsGenerated = Len(scene),
                   !.tones = <<>>])

\* The trials: in the open scene, a jump for every hold and one fall; in the
\* other two scenes, a jump for every hold at either x.
Trials ==
   {<<OpenScene, CentreX, 0, h>> : h \in 1 .. MaxHold}
   \cup {<<OpenScene, CentreX, DropRows, 1>>}
   \cup {<<scene, x, 0, h>> : scene \in {ThroughScene, CappedScene},
                              x \in {CentreX, EdgeX}, h \in 1 .. MaxHold}

InitTrial ==
   \E t \in Trials :
      \E n \in {TrialWorld(t[1], t[2], t[3])} :
      /\ gameState = n.gameState
      /\ gameOverTimer = n.gameOverTimer
      /\ showRetryPrompt = n.showRetryPrompt
      /\ prevGamepad = n.prevGamepad
      /\ cameraY = n.cameraY
      /\ lavaY = n.lavaY
      /\ currentLavaSpeed = n.currentLavaSpeed
      /\ highestPlatformY = n.highestPlatformY
      /\ platformsGenerated = n.platformsGenerated
      /\ platforms = n.platforms
      /\ lavaDrops = n.lavaDrops
      /\ player = n.player
      /\ rng = n.rng
      /\ tones = n.tones
      /\ resets = n.resets
      /\ frame = 0
      /\ padChanges = 0
      /\ hold = t[4]
      /\ twin = n.player
      /\ peak = n.player.y
      /\ twinPeak = n.player.y
      /\ queryX = 0
      /\ queryY = 0
      /\ tileRead = -1
      /\ drawn = <<>>

\* The mask of a frame of a player who holds the jump button for h frames.
heldFor(h) == IF frame < h THEN {BUTTON_1} ELSE {}

\* A frame of update() of a trial; twin goes through Player.update() with
\* the same platforms.
TrialFrame ==
   /\ gameState = Playing
   /\ frame < MaxTrialFrames
   /\ \E n \in {update(World, heldFor(hold))} :
         /\ Becomes(n)
         /\ peak' = Min(peak, n.player.y)
   /\ \E t \in {playerUpdate([World EXCEPT !.player = twin],
                             heldFor(hold + 1)).player} :
         /\ twin' = t
         /\ twinPeak' = Min(twinPeak, t.y)
   /\ frame' = frame + 1
   /\ UNCHANGED <<padChanges, hold>>
   /\ UNCHANGED tileVars

NextTrial == TrialFrame

\* Jumps and falls in the generated part of the world.
SpecTrial == InitTrial /\ [][NextTrial]_vars

\* The frames and the changes of the jump button in a jump-button game.
MaxJumpFrames == 48
MaxJumpPadChanges == 5

\* The jump-button games start from the trials of the jump-through scene.
InitJump ==
   \E x \in {CentreX, EdgeX} :
      \E n \in {TrialWorld(ThroughScene, x, 0)} :
      /\ gameState = n.gameState
      /\ gameOverTimer = n.gameOverTimer
      /\ showRetryPrompt = n.showRetryPrompt
      /\ prevGamepad = n.prevGamepad
      /\ cameraY = n.cameraY
      /\ lavaY = n.lavaY
      /\ currentLavaSpeed = n.currentLavaSpeed
      /\ highestPlatformY = n.highestPlatformY
      /\ platformsGenerated = n.platformsGenerated
      /\ platforms = n.platforms
      /\ lavaDrops = n.lavaDrops
      /\ player = n.player
      /\ rng = n.rng
      /\ tones = n.tones
      /\ resets = n.resets
      /\ frame = 0
      /\ padChanges = 0
      /\ hold = 0
      /\ twin = n.player
      /\ peak = n.player.y
      /\ twinPeak = n.player.y
      /\ queryX = 0
      /\ queryY = 0
      /\ tileRead = -1
      /\ drawn = <<>>

\* A frame of update() in Playing with the jump button down or up.
JumpFrame(pad) ==
   /\ gameState = Playing
   /\ frame < MaxJumpFrames
   /\ pad # prevGamepad => padChanges < MaxJumpPadChanges
   /\ \E n \in {update(World, pad)} : Becomes(n)
   /\ frame' = frame + 1
   /\ padChanges' = IF pad # prevGamepad THEN padChanges + 1 ELSE padChanges
   /\ UNCHANGED trialVars
   /\ UNCHANGED tileVars

NextJump == \E pad \in {{}, {BUTTON_1}} : JumpFrame(pad)

\* Games in which the jump button is pressed and released at any time.
SpecJump == InitJump /\ [][NextJump]_vars

----------------------------------------------------------------------------
\* Games played with the movement buttons beside the edges of the screen.

MaxEdgeFrames == 24
MaxEdgePadChanges == 2

\* The x of a player standing on the platform of columns 1 .. 4 near its
\* left end, and on the platform of columns 14 .. 16 near its right end.
LeftStartX == Px(9)
RightStartX == Px(110)

\* The games start in the open scene with the player standing on the
\* platform of row -25 (x 7 .. 35) or on that of row -28 (x 98 .. 119).
InitEdge ==
   \E t \in {<<LeftStartX, 5>>, <<RightStartX, 8>>} :
      \E n \in {TrialWorld(OpenScene, t[1], t[2])} :
      /\ gameState = n.gameState
      /\ gameOverTimer = n.gameOverTimer
      /\ showRetryPrompt = n.showRetryPrompt
      /\ prevGamepad = n.prevGamepad
      /\ cameraY = n.cameraY
      /\ lavaY = n.lavaY
      /\ currentLavaSpeed = n.currentLavaSpeed
      /\ highestPlatformY = n.highestPlatformY
      /\ platformsGenerated = n.platformsGenerated
      /\ platforms = n.platforms
      /\ lavaDrops = n.lavaDrops
      /\ player = n.player
      /\ rng = n.rng
      /\ tones = n.tones
      /\ resets = n.resets
      /\ frame = 0
      /\ padChanges = 0
      /\ hold = 0
      /\ twin = n.player
      /\ peak = n.player.y
      /\ twinPeak = n.player.y
      /\ queryX = 0
      /\ queryY = 0
      /\ tileRead = -1
      /\ drawn = <<>>

\* A frame of update() in Playing with a movement button down or none.
EdgeFrame(pad) ==
   /\ gameState = Playing
   /\ frame < MaxEdgeFrames
   /\ pad # prevGamepad => padChanges < MaxEdgePadChanges
   /\ \E n \in {update(World, pad)} : Becomes(n)
   /\ frame' = frame + 1
   /\ padChanges' = IF pad # prevGamepad THEN padChanges + 1 ELSE padChanges
   /\ UNCHANGED trialVars
   /\ UNCHANGED tileVars

NextEdge == \E pad \in {{}, {BUTTON_LEFT}, {BUTTON_RIGHT}} : EdgeFrame(pad)

SpecEdge == InitEdge /\ [][NextEdge]_vars

\* ---------------------------------------------------------------------
\* Properties
\* ---------------------------------------------------------------------

\* One frame as far as the game state is concerned: at most one reset, a
\* reset always changes the state, and a change of state is one of the three
\* of the cycle, each with its cause.
StateChange ==
   /\ Len(resets') <= 1
   /\ (resets' # <<>>) => (gameState' # gameState)
   /\ (gameState' # gameState) =>
         \/ /\ gameState = TitleScreen
            /\ gameState' = Playing
            /\ prevGamepad' \ prevGamepad # {}
            /\ resets' = <<>>
         \/ /\ gameState = Playing
            /\ gameState' = GameOver
            /\ resets' \in {<<"pool">>, <<"drop">>}
         \/ /\ gameState = GameOver
            /\ gameState' = TitleScreen
            /\ showRetryPrompt'
            /\ prevGamepad' \ prevGamepad # {}
            /\ resets' = <<"retry">>

\* C1: the game starts in TitleScreen and the state changes only from
\* TitleScreen to Playing on a newly pressed button, from Playing to GameOver
\* on a lava death, and from GameOver to TitleScreen on a newly pressed
\* button while the retry prompt shows; no frame resets the game twice.
StateCycle == (gameState = TitleScreen) /\ [][StateChange]_vars

\* A death followed by a retry has brought the game back to the title screen.
CycleCompleted == gameState = TitleScreen /\ resets = <<"retry">>

\* C2: a Playing frame on which the player's feet are below the lava pool
\* surface once the lava has moved ends in GameOver with the timer at 0 and
\* the retry prompt off.
PoolDeathEndsInGameOver ==
   [][(/\ gameState = Playing
       /\ \E w \in {updatePlayingToLava(World, prevGamepad')} :
             touchesPool(w.player, w.lavaY))
      => (gameState' = GameOver /\ gameOverTimer' = 0 /\ ~showRetryPrompt')]_vars

\* The lava pool has just caught the player.
PoolDeath ==
   /\ gameState = GameOver
   /\ resets = <<"pool">>
   /\ gameOverTimer = 0
   /\ ~showRetryPrompt

\* C3: in GameOver the timer goes up by one each frame, and as long as it is
\* at most 60 the prompt stays off and the state stays GameOver whatever the
\* buttons do; entering GameOver starts the timer at 0 with the prompt off.
GameOverDelay ==
   [][/\ (gameState # GameOver /\ gameState' = GameOver)
            => (gameOverTimer' = 0 /\ ~showRetryPrompt')
      /\ (gameState = GameOver)
            => /\ gameOverTimer' = gameOverTimer + 1
               /\ (gameOverTimer' <= 60)
                     => (gameState' = GameOver /\ ~showRetryPrompt')]_vars

\* Sixty frames of GameOver have gone by and a button is down on the last.
SixtyFramesWithButton ==
   /\ gameState = GameOver
   /\ gameOverTimer = 60
   /\ prevGamepad # {}

\* How many resets in a row the idempotence property looks at.
MaxResets == 3

\* resetGame applied n times.
RECURSIVE resetTimes(_, _)
resetTimes(w, n) ==
   IF n = 0 THEN w ELSE resetGame(resetTimes(w, n - 1), "retry")

\* The values a reset is responsible for.
ResetValues(w) ==
   <<w.player.x, w.player.y, w.player.velocityX, w.player.velocityY,
     w.cameraY, w.lavaY, w.currentLavaSpeed, w.platforms>>

\* C4: from GameOver, resetGame applied once or several times gives the
\* player at x = (LEVEL_WIDTH / 2) * TILE_SIZE, y = 100 with no velocity, the
\* camera at 0, the lava at its initial height with speed 0, and exactly the
\* platforms of the static tilemap.
ResetIsIdempotent ==
   (gameState = GameOver) =>
      \A n \in 1 .. MaxResets :
         ResetValues(resetTimes(World, n)) =
            <<Px((LEVEL_WIDTH \div 2) * TILE_SIZE), Px(100), 0, 0,
              0, initialLavaY, 0, tilemapPlatforms>>

\* A GameOver state whose platform list is not the static one, with the
\* retry prompt showing.
GameOverWithExtraPlatforms ==
   /\ gameState = GameOver
   /\ showRetryPrompt
   /\ platforms # tilemapPlatforms

\* C5: at the end of every frame that ends in GameOver or TitleScreen the
\* platform list is exactly the one the static tilemap gives, with no
\* generated platform in it.
PlatformsStaticAfterReset ==
   (gameState \in {GameOver, TitleScreen}) => (platforms = tilemapPlatforms)

\* C6: the lava speed never exceeds one and a half times the maximum speed.
LavaSpeedBounded == currentLavaSpeed <= (LAVA_RISE_SPEED_MAX * 3) \div 2

\* The lava is rising at the full rubber-band speed.
LavaAtMaxSpeed ==
   gameState = Playing /\ currentLavaSpeed = LAVA_RISE_SPEED_MAX

\* C7, as stated: whenever the lava surface is at most the rubber-band
\* distance below the bottom of the screen, the lava speed is the minimum.
SlowWheneverNear ==
   (lavaScreenDistOf(lavaY, cameraY) <= LAVA_RUBBER_BAND_DISTANCE)
      => (currentLavaSpeed = LAVA_RISE_SPEED_MIN)

\* C7: whenever the distance the speed was chosen for (the distance now plus
\* the rise of the frame) is at most the rubber-band distance, the lava speed
\* is the minimum.
SlowWhenNearBeforeRise ==
   (lavaScreenDistOf(lavaY, cameraY) + currentLavaSpeed
       <= LAVA_RUBBER_BAND_DISTANCE)
      => (currentLavaSpeed = LAVA_RISE_SPEED_MIN)

\* The lava has come within the rubber-band distance and creeps.
LavaCreepsNear ==
   /\ gameState = Playing
   /\ lavaScreenDistOf(lavaY, cameraY) + currentLavaSpeed
         <= LAVA_RUBBER_BAND_DISTANCE
   /\ currentLavaSpeed = LAVA_RISE_SPEED_MIN

\* C8, as stated: the topmost generated row is always at least 8 rows above
\* the top row of the screen.
GenerationAheadAlways == highestPlatformY <= worldToTileY(cameraY) - 8

\* C8: after every frame played in Playing the topmost generated row is at
\* least 8 rows above the top row of the screen.
GenerationAheadAfterPlaying ==
   [][(gameState = Playing)
         => (highestPlatformY' <= worldToTileY(cameraY') - 8)]_vars

\* Platforms have been generated during play and reach above the screen.
GeneratedAhead ==
   /\ gameState = Playing
   /\ platformsGenerated > 0
   /\ highestPlatformY <= worldToTileY(cameraY) - 8

\* The y of the player's feet.
FeetY == player.y + player.height

\* The feet are at the top of a platform of the list.
OnPlatformTop == \E i \in 1 .. Len(platforms) : platforms[i].y = FeetY

\* The feet are at the top of a Solid or Platform tile of the tilemap.
OnGroundTileTop ==
   \E tileY \in 0 .. LEVEL_HEIGHT - 1 :
      /\ tileToWorldY(tileY) = FeetY
      /\ \E tileX \in 0 .. LEVEL_WIDTH - 1 :
            \/ isSolidTile(getTile(tileX, tileY))
            \/ isPlatformTile(getTile(tileX, tileY))

\* C9: when the player is on the ground its vertical velocity is 0 and its
\* feet are at the top of a platform or of a ground tile.
GroundedRestsOnTop ==
   player.isOnGround =>
      (player.velocityY = 0 /\ (OnPlatformTop \/ OnGroundTileTop))

\* The player has landed during play.
LandedInPlay ==
   /\ gameState = Playing
   /\ player.isOnGround
   /\ player.y # NewPlayer.y

\* C10: the player's box never overlaps a platform that is not jump-through.
NoSolidOverlap ==
   \A i \in 1 .. Len(platforms) :
      platforms[i].isJumpThrough \/
         ~checkCollision(player.x, player.y, player.width, player.height,
                         platforms[i].x, platforms[i].y,
                         platforms[i].width, platforms[i].height)

\* The player of the frame once updatePhysics has moved it, before the
\* collision loop.
Moved == integrate(accelerate(World, prevGamepad').player)

\* Do the boxes of the player p and of the platform overlap
overlapsPlatform(p, platform) ==
   checkCollision(p.x, p.y, p.width, p.height,
                  platform.x, platform.y, platform.width, platform.height)

\* The frame moves the player upward into the box of the jump-through
\* platform.
PassesUpward(platform) ==
   /\ platform.isJumpThrough
   /\ Moved.velocityY < 0
   /\ overlapsPlatform(Moved, platform)

\* The frame moves the feet from the top of the jump-through platform, or
\* from above it, to below the top.
LandsFromAbove(platform) ==
   /\ platform.isJumpThrough
   /\ overlapsPlatform(Moved, platform)
   /\ player.y + player.height <= platform.y
   /\ Moved.y + Moved.height > platform.y
   /\ Moved.velocityY > 0

\* A frame that passes upward through a jump-through platform leaves the
\* velocity other than 0 and the player elsewhere than on that platform.
UpwardPassIsFree ==
   \A i \in 1 .. Len(platforms) :
      PassesUpward(platforms[i]) =>
         /\ player'.velocityY # 0
         /\ player'.y # platforms[i].y - player.height

\* A frame that lands on a jump-through platform from above leaves the
\* player on its top, at rest and grounded.
LandingFromAboveHolds ==
   \A i \in 1 .. Len(platforms) :
      LandsFromAbove(platforms[i]) =>
         /\ player'.y = platforms[i].y - player.height
         /\ player'.velocityY = 0
         /\ player'.isOnGround

\* C11: a frame on which the player moves upward into a jump-through
\* platform neither zeroes velocityY nor snaps the player onto that
\* platform, and a frame on which the feet come down through the top of a
\* jump-through platform puts the player on that top, at rest and grounded.
OneWayPlatforms ==
   [][(gameState = Playing) =>
         (UpwardPassIsFree /\ LandingFromAboveHolds)]_vars


\* No platform above the floor of the trial reaches into the columns of the
\* player's box.
InFreeAir ==
   \A i \in 1 .. Len(platforms) :
      (/\ platforms[i].x < player.x + player.width
       /\ platforms[i].x + platforms[i].width > player.x)
         => (platforms[i].y >= tileToWorldY(-20))

\* C12: of two jumps from the ground in free air, the one whose button is
\* held a frame longer peaks at least as high (its least y is at most the
\* least y of the other), for every hold from 1 to MaxHold frames.
JumpMonotone == InFreeAir => (twinPeak <= peak)

\* Both jumps are over: the button was held into the jump, both players
\* have left the ground and are back on it.
BothJumpsLanded ==
   /\ InFreeAir
   /\ hold >= 3
   /\ peak < player.y
   /\ twinPeak < twin.y
   /\ player.isOnGround
   /\ twin.isOnGround

\* A frame that stays in its game state and calls neither startGame() nor
\* resetGame().
QuietFrame == resets' = <<>> /\ gameState' = gameState

\* The frame has run player.update(gamepad) on the player it began with.
PlayerStepped ==
   player' = playerUpdate(IF gameState = GameOver THEN World
                          ELSE updateCamera(World), prevGamepad').player

\* The frame has run LavaDrop.update() on every drop of the pool: each drop
\* has moved down by its speed or has been respawned above the screen.
DropsStepped ==
   /\ Len(lavaDrops') = Len(lavaDrops)
   /\ \A i \in 1 .. Len(lavaDrops) :
         \/ lavaDrops'[i].y = lavaDrops[i].y + lavaDrops[i].speed
         \/ lavaDrops'[i].y < 0

\* C13: on every frame, in TitleScreen, Playing and GameOver alike, the
\* player physics step and the lava-drop update are both executed.
PhysicsAndDropsInEveryState ==
   [][QuietFrame => (PlayerStepped /\ DropsStepped)]_vars


\* C14: only Playing advances the pool and the platform set: a frame that
\* begins in TitleScreen or GameOver and calls neither startGame() nor
\* resetGame() leaves lavaY, currentLavaSpeed, the platform list,
\* highestPlatformY and platformsGenerated as they were.
OnlyPlayingAdvances ==
   [][(gameState \in {TitleScreen, GameOver} /\ QuietFrame)
         => UNCHANGED <<lavaY, currentLavaSpeed, platforms,
                        highestPlatformY, platformsGenerated>>]_vars

\* Quiet frames have run in GameOver after a game that generated platforms.
GameOverFramesRun ==
   /\ gameState = GameOver
   /\ gameOverTimer >= 2
   /\ platformsGenerated > 0
   /\ resets = <<>>


\* C15: the drop pool has MAX_LAVA_DROPS / 2 drops whenever the game is in
\* TitleScreen, also after the return from GameOver, and MAX_LAVA_DROPS
\* drops whenever it is in Playing.
DropPoolSizeByState ==
   /\ (gameState = TitleScreen) => (Len(lavaDrops) = MAX_LAVA_DROPS \div 2)
   /\ (gameState = Playing) => (Len(lavaDrops) = MAX_LAVA_DROPS)


\* C16: the lava cannot be outrun by standing still: once no button is
\* pressed any more, every Playing state is followed by GameOver, and the
\* pool rises by at least LAVA_RISE_SPEED_MIN on every frame that begins and
\* ends in Playing.
StandingStillEndsInGameOver ==
   /\ (gameState = Playing) ~> (gameState = GameOver)
   /\ [][(gameState = Playing /\ gameState' = Playing)
            => (lavaY' <= lavaY - LAVA_RISE_SPEED_MIN)]_vars

\* The pool has reached the feet of a player who let go of the buttons.
CaughtStandingStill ==
   /\ gameState = GameOver
   /\ resets = <<"pool">>
   /\ prevGamepad = {}
   /\ frame > MaxLiveFrames


\* C17: at the end of every player update velocityY is at most
\* TERMINAL_VELOCITY, and the clamp caps the downward speed only: an upward
\* velocity, however large, passes through it unchanged.
TerminalVelocity ==
   /\ player.velocityY <= TERMINAL_VELOCITY
   /\ twin.velocityY <= TERMINAL_VELOCITY
   /\ LET up == [player EXCEPT !.velocityY =
                    -(TERMINAL_VELOCITY + Abs(player.velocityY))]
      IN clampVelocity(up) = up

\* The player falls at terminal velocity.
FallsAtTerminalVelocity ==
   /\ gameState = Playing
   /\ ~player.isOnGround
   /\ player.velocityY = TERMINAL_VELOCITY


\* The number of frames of the rest scenario.
MaxRestFrames == 10

\* The player stands on top of the solid platform, its centre over it.
RestsOn(p, platform) ==
   /\ ~platform.isJumpThrough
   /\ p.y + p.height = platform.y
   /\ p.x + p.width \div 2 >= platform.x
   /\ p.x + p.width \div 2 <= platform.x + platform.width

\* The player is grounded with velocity zero on a solid platform.
GroundedStill ==
   /\ player.isOnGround
   /\ player.velocityX = 0
   /\ player.velocityY = 0
   /\ \E i \in 1 .. Len(platforms) : RestsOn(player, platforms[i])

RECURSIVE staysAtRest(_, _)
\* After each of n player updates with no button down, starting from w, the
\* player is where it is now, grounded and Standing.
staysAtRest(w, n) ==
   IF n = 0 THEN TRUE
   ELSE \A a \in {playerUpdate(w, {})} :
           /\ a.player.x = player.x
           /\ a.player.y = player.y
           /\ a.player.isOnGround
           /\ a.player.animState = Standing
           /\ staysAtRest(a, n - 1)

BeforeCleanup ==
   checkGeneratePlatforms(
      checkLavaCollision(updatePlayingToLava(World, prevGamepad')))

\* C20: at the end of every Playing frame no platform of the list has its
\* top below cameraY + screenHeight + 50, and the cleanup has removed only
\* such platforms: every platform at or above that line that was in the
\* list before the cleanup is still in it, in the same order.
CleanupPolicy ==
   [][(gameState = Playing)
         => \A b \in {BeforeCleanup} :
               /\ \A i \in 1 .. Len(platforms') :
                     platforms'[i].y <= cameraY' + Px(SCREEN_SIZE + 50)
               /\ \A i \in 1 .. Len(b.platforms) :
                     (b.platforms[i].y <= cameraY' + Px(SCREEN_SIZE + 50))
                        => \E j \in 1 .. Len(platforms') :
                              platforms'[j] = b.platforms[i]
               /\ platforms' =
                     SelectSeq(b.platforms,
                               LAMBDA p : p.y <= cameraY' + Px(SCREEN_SIZE + 50))]_vars

\* The cleanup has removed platforms under a player who is rising.
PlatformsCleanedUp ==
   /\ gameState = Playing
   /\ player.velocityY < 0
   /\ Len(platforms) < platformsGenerated
   /\ Len(platforms) > 0


\* The platforms generated so far in this play session, in order, as long as
\* the cleanup has removed nothing: those behind the platforms of the tilemap.
SessionPlatforms ==
   IF /\ Len(platforms) >= Len(tilemapPlatforms)
      /\ SubSeq(platforms, 1, Len(tilemapPlatforms)) = tilemapPlatforms
   THEN SubSeq(platforms, Len(tilemapPlatforms) + 1, Len(platforms))
   ELSE <<>>

\* C21: in every play session, counted from the start of the program and
\* from each reset, the platforms generated before the count exceeds 5 (the
\* first six) are solid, never jump-through.
EarlyPlatformsSolid ==
   \A i \in 1 .. Len(SessionPlatforms) :
      (i <= 6) => ~SessionPlatforms[i].isJumpThrough


\* C22: every generated platform is 3 to 6 tiles wide, has as many tile
\* codes as tiles, starts at tile column 1 or further right and ends at tile
\* column LEVEL_WIDTH - 4 or further left, so left of the lava stream; and
\* this is so for every outcome of the draws of the width and the column.
GeneratedPlatformsFit ==
   /\ \A i \in 1 .. Len(SessionPlatforms) :
         LET p == SessionPlatforms[i] IN
         /\ p.width \in {Px(n * TILE_SIZE) : n \in 3 .. 6}
         /\ Px(Len(p.tileTypes) * TILE_SIZE) = p.width
         /\ p.x >= Px(TILE_SIZE)
         /\ p.x + p.width <= Px((LEVEL_WIDTH - 4) * TILE_SIZE)
         /\ p.x + p.width < Px(LAVA_STREAM_X)
   /\ \A s \in Draws :
         /\ platformWidthOf(s) \in 3 .. 6
         /\ \A n \in 3 .. 6 :
               /\ platformXOf(s, n) >= 1
               /\ platformXOf(s, n) + n <= LEVEL_WIDTH - 4

\* Platforms have been generated, one of them as far right as can be.
GeneratedAtRightMargin ==
   /\ Len(SessionPlatforms) = MaxGenerated
   /\ \E i \in 1 .. Len(SessionPlatforms) :
         SessionPlatforms[i].x + SessionPlatforms[i].width
            = Px((LEVEL_WIDTH - 4) * TILE_SIZE)


\* The query is inside the level.
TileInBounds ==
   /\ 0 <= queryX /\ queryX < LEVEL_WIDTH
   /\ 0 <= queryY /\ queryY < LEVEL_HEIGHT

\* C23: getTile(x, y) returns Empty (0) for every query with x < 0, y < 0,
\* x >= LEVEL_WIDTH or y >= LEVEL_HEIGHT; for a query inside the level it
\* returns levelData[y * LEVEL_WIDTH + x], an element of the array.
GetTileClosedWorld ==
   (tileRead # -1) =>
      IF TileInBounds
      THEN /\ queryY * LEVEL_WIDTH + queryX + 1 \in DOMAIN levelData
           /\ tileRead = levelData[queryY * LEVEL_WIDTH + queryX + 1]
      ELSE tileRead = 0

\* getTile has answered the query for the column right of the last tile of
\* the array.
TileQueryPastTheEnd ==
   /\ tileRead # -1
   /\ queryX = LEVEL_WIDTH
   /\ queryY = LEVEL_HEIGHT - 1


\* A frame with a player update at whose start the player is grounded and at
\* whose end it is not, without a jump having taken it off the ground.
LeavesGroundWithoutJump ==
   /\ gameState \in {TitleScreen, Playing}
   /\ resets' = <<>>
   /\ player.isOnGround
   /\ ~player'.isOnGround
   /\ ~player'.isJumping

\* C24: on every frame on which the player was grounded at the end of the
\* previous frame and is not grounded at the end of this one, without having
\* jumped, coyoteTimeCounter is started at COYOTE_TIME: it has that value
\* during the frame and, after the decrement of the same frame, one less at
\* its end.
CoyoteStartsOnLeavingGround ==
   [][LeavesGroundWithoutJump
         => (player'.coyoteTimeCounter >= COYOTE_TIME - 1)]_vars


\* A frame with a player update at whose start and at whose end the player
\* is not grounded.
StaysAirborne ==
   /\ gameState \in {TitleScreen, Playing}
   /\ resets' = <<>>
   /\ ~player.isOnGround
   /\ ~player'.isOnGround

\* C25: coyote time does not come back while the player is airborne: over
\* consecutive frames at whose ends isOnGround is false, coyoteTimeCounter
\* goes down by one per frame until it is 0 and stays there, and it is never
\* above COYOTE_TIME.
CoyoteRunsDownInTheAir ==
   [][/\ player'.coyoteTimeCounter <= COYOTE_TIME
      /\ StaysAirborne
            => (player'.coyoteTimeCounter =
                   Max(player.coyoteTimeCounter - 1, 0))]_vars


\* The tone t is among the tones ts.
HasTone(ts, t) == \E i \in 1 .. Len(ts) : ts[i] = t

\* A frame that runs the player update and does not reset the game.
PlayerFrame == gameState \in {TitleScreen, Playing} /\ resets' = <<>>

\* The frame gives the jump impulse: velocityY = INITIAL_JUMP_FORCE, with
\* the jump tone.
JumpImpulse == HasTone(tones', "jump")

\* The frame makes landing contact with a platform or the ground.
LandingContact == player'.isOnGround \/ HasTone(tones', "land")

\* The jump button is newly pressed on this frame, in a place where a jump
\* may start.
JumpPress ==
   /\ BUTTON_1 \in prevGamepad'
   /\ ~player.prevJumpButton
   /\ player.isOnGround \/ player.coyoteTimeCounter > 0

\* The player p is in the air with no coyote time and no jump squat left.
InTheAir(p) ==
   ~p.isOnGround /\ p.coyoteTimeCounter = 0 /\ p.jumpSquatTimer = 0

\* C26: the jump impulse comes on the third player update counted from a
\* new press of the jump button made while grounded or in coyote time with
\* no squat in progress, and only then: the press leaves two frames of
\* squat, a squat counts down whatever the button does, and the impulse is
\* given on the frame that ends the squat.  After an impulse the player is
\* in the air with no coyote time, and from there no squat begins and no
\* impulse is given before a landing contact.
JumpInitiation ==
   [][PlayerFrame =>
         /\ player.jumpSquatTimer = 0
               => (player'.jumpSquatTimer = IF JumpPress THEN 2 ELSE 0)
         /\ player.jumpSquatTimer > 0
               => (player'.jumpSquatTimer = player.jumpSquatTimer - 1)
         /\ JumpImpulse <=> (player.jumpSquatTimer = 1)
         /\ JumpImpulse => (player'.isJumping /\ InTheAir(player'))
         /\ (InTheAir(player) /\ ~LandingContact)
               => (InTheAir(player') /\ ~JumpImpulse)]_vars

\* The jump of a press on the first frame gave its impulse on the third; the
\* button has since been released and pressed again, and that second press
\* has begun no squat and given no impulse.
SecondPressIgnored ==
   /\ gameState = Playing
   /\ frame = 5
   /\ padChanges = 3
   /\ prevGamepad = {BUTTON_1}
   /\ player.isJumping
   /\ player.velocityY = INITIAL_JUMP_FORCE + 3 * GRAVITY
   /\ player.jumpSquatTimer = 0
   /\ ~HasTone(tones, "jump")

\* C27: on the frame that completes the jump squat of a jump started from
\* the ground with the jump button held, jumpReleased is false and the hold
\* gravity is applied: the hold timer counts its first frame and velocityY
\* is at most INITIAL_JUMP_FORCE + JUMP_HOLD_GRAVITY; on each following
\* frame with the button still held and the hold timer below
\* MAX_JUMP_HOLD_FRAMES the hold timer counts again.
HoldGravityOnHeldJump ==
   [][(PlayerFrame /\ BUTTON_1 \in prevGamepad /\ BUTTON_1 \in prevGamepad') =>
         /\ (JumpImpulse /\ player.isOnGround)
               => /\ ~player'.jumpReleased
                  /\ player'.jumpHoldTimer = 1
                  /\ player'.velocityY <= INITIAL_JUMP_FORCE + JUMP_HOLD_GRAVITY
         /\ (/\ player.isJumping
             /\ ~player.jumpReleased
             /\ player.jumpHoldTimer < MAX_JUMP_HOLD_FRAMES)
               => player'.jumpHoldTimer = player.jumpHoldTimer + 1]_vars

\* The frame takes the player from not grounded to grounded, and the player
\* was falling faster than the landing threshold of 3 when the frame began.
HardLanding ==
   /\ PlayerFrame
   /\ ~player.isOnGround
   /\ player.velocityY > Px(3)
   /\ player'.isOnGround

\* C28: a frame that takes the player from not grounded to grounded with an
\* impact velocity above 3 starts the landing animation: at the end of the
\* frame the landing timer is running and animState is Landing.
LandingAnimationStarts ==
   [][HardLanding =>
         (player'.landingTimer > 0 /\ player'.animState = Landing)]_vars

\* C29: at the end of every player update a player who is jumping is
\* moving upwards, also when its head has hit the underside of a solid
\* platform.
JumpingMovesUp == player.isJumping => player.velocityY < 0

\* The player's box lies within the screen's width.
WithinScreenWidth ==
   0 <= player.x /\ player.x + player.width <= Px(SCREEN_SIZE)

\* The player of the frame as it reaches the screen boundaries of
\* updatePhysics.
BeforeBounds ==
   coyoteStep(groundDetect(moveAndCollide(
                 accelerate(World, prevGamepad'))).player)

\* The frame's clamp to the screen moves the player.
ClampMoves ==
   /\ PlayerFrame
   /\ \E p \in {BeforeBounds} :
         p.x < 0 \/ p.x + p.width > Px(SCREEN_SIZE)

\* C30: at the end of every player update the player's box lies within the
\* screen's width, 0 <= x and x + width <= 160, and a frame whose clamp
\* moved the player ends with the player at that edge and velocityX = 0.
ScreenEdgeClamp ==
   /\ []WithinScreenWidth
   /\ [][ClampMoves =>
            /\ player'.velocityX = 0
            /\ player'.x \in {0, Px(SCREEN_SIZE) - player'.width}]_vars

\* The player has walked into the left edge of the screen and has been
\* stopped there.
StoppedAtLeftEdge ==
   /\ prevGamepad = {BUTTON_LEFT}
   /\ player.x = 0
   /\ player.velocityX = 0

\* The columns the platform covers, and its row.
ColumnsOf(platform) ==
   worldToTileX(platform.x) ..
      worldToTileX(platform.x) + Len(platform.tileTypes) - 1

RowOf(platform) == worldToTileY(platform.y)

\* The platform is a maximal run of tiles of the grid data: it lies on the
\* tile raster, its tiles are those of the grid in order, none of them is
\* empty, the tiles before and after it are empty or off the grid, and its
\* class is that of its first tile.
IsMaximalRun(data, platform) ==
   /\ platform.x = tileToWorldX(worldToTileX(platform.x))
   /\ platform.y = tileToWorldY(RowOf(platform))
   /\ Len(platform.tileTypes) >= 1
   /\ platform.width = Px(Len(platform.tileTypes) * TILE_SIZE)
   /\ platform.height = Px(TILE_SIZE)
   /\ \A c \in ColumnsOf(platform) :
         /\ c < LEVEL_WIDTH
         /\ startsRun(getTileIn(data, c, RowOf(platform)))
         /\ platform.tileTypes[c - worldToTileX(platform.x) + 1]
               = getTileIn(data, c, RowOf(platform))
   /\ ~startsRun(getTileIn(data, worldToTileX(platform.x) - 1,
                           RowOf(platform)))
   /\ ~startsRun(getTileIn(data, worldToTileX(platform.x)
                                    + Len(platform.tileTypes),
                           RowOf(platform)))
   /\ platform.isJumpThrough = isJumpThroughTile(platform.tileTypes[1])

\* C31: for any tile grid, every platform initPlatforms produces is a
\* maximal horizontal run of non-empty tiles of one row, a run that reaches
\* the end of the row included, with x, y, width and tile codes of the run
\* and the jump-through class of its first tile, and every non-empty tile
\* belongs to exactly one platform: one platform per maximal run.
PlatformsAreTheRuns ==
   (drawn # <<>> /\ frame = 1) =>
      /\ \A i \in 1 .. Len(platforms) : IsMaximalRun(Grid, platforms[i])
      /\ \A x \in 0 .. LEVEL_WIDTH - 1, y \in 0 .. LEVEL_HEIGHT - 1 :
            startsRun(getTileIn(Grid, x, y)) =>
               Cardinality({i \in 1 .. Len(platforms) :
                               /\ RowOf(platforms[i]) = y
                               /\ x \in ColumnsOf(platforms[i])}) = 1

\* initPlatforms has produced two platforms from one row: a run that begins
\* with a solid tile, and a run that begins with a jump-through tile, holds
\* a platform tile and reaches the end of the row.
RunReachesRowEnd ==
   /\ frame = 1
   /\ drawn = <<1, 0, 6, 4>>
   /\ queryX = LEVEL_WIDTH - MaxDrawn
   /\ Len(platforms) = 2
   /\ ~platforms[1].isJumpThrough
   /\ platforms[2].isJumpThrough
   /\ platforms[2].tileTypes = <<6, 4>>
   /\ platforms[2].x + platforms[2].width = Px(LEVEL_WIDTH * TILE_SIZE)

\* The tile of the state has been classified.
Classified == Len(drawn) = 1 /\ tileRead # -1

\* The canonical tile of a corner or variant tile: the left, middle or right
\* tile of the same kind of platform.
Canonical(tileType) ==
   CASE tileType = 8 -> 2
     [] tileType = 9 -> 4
     [] tileType = 10 -> 5
     [] tileType = 11 -> 7
     [] tileType \in {12, 13} -> 3
     [] tileType \in {14, 15} -> 6
     [] OTHER -> tileType

\* C33 as stated: every tile code 0 .. 15 satisfies exactly one of
\* isSolidTile, isPlatformTile and isJumpThroughTile.
EveryCodeInOneClass ==
   (Classified /\ drawn[1] \in 0 .. 15) => tileRead \in {1, 2, 4}

\* C33, amended: the three predicates are pairwise disjoint; each of the
\* codes 1 .. 15 satisfies exactly one of them, a corner or variant code the
\* same one as its canonical tile; the code 0 (Empty) and the codes above 15
\* satisfy none.
NonEmptyCodesInOneClass ==
   Classified =>
      /\ tileRead \in {0, 1, 2, 4}
      /\ drawn[1] \in 1 .. 15 <=> tileRead # 0
      /\ tileRead = classBits(Canonical(drawn[1]))

\* A jump-through corner tile has been classified as jump-through only.
CornerTileClassified ==
   Classified /\ drawn[1] = 10 /\ tileRead = 4

\* The number of platforms the frame generates.
GeneratedNow == platformsGenerated' - platformsGenerated

\* The tile row of the j-th platform the frame generates: the generated
\* platforms are the last of the list.
BatchRow(j) ==
   worldToTileY(platforms'[Len(platforms') - GeneratedNow + j].y)

\* highestPlatformY as checkGeneratePlatforms finds it: a reset earlier in
\* the frame has set it to LEVEL_HEIGHT.
TopBefore == IF resets' # <<>> THEN LEVEL_HEIGHT ELSE highestPlatformY

\* C32: a Playing frame generates platforms exactly when
\* worldToTileY(cameraY) - 8 < highestPlatformY, and then at least one; the
\* first is at row highestPlatformY - 3, each next one 2 to 4 rows higher,
\* every row is greater than worldToTileY(cameraY) - 15 and less than
\* highestPlatformY, which becomes the last row: between resets the
\* generated rows strictly decrease and no two platforms share a row.
ExtensionBatchShape ==
   [][gameState = Playing =>
         /\ GeneratedNow >= 1
               <=> needsPlatforms(worldToTileY(cameraY'), TopBefore)
         /\ GeneratedNow >= 1 =>
               /\ Len(platforms') >= GeneratedNow
               /\ BatchRow(1) = TopBefore - 3
               /\ \A j \in 2 .. GeneratedNow :
                     BatchRow(j - 1) - BatchRow(j) \in 2 .. 4
               /\ \A j \in 1 .. GeneratedNow :
                     /\ BatchRow(j) > worldToTileY(cameraY') - 15
                     /\ BatchRow(j) < TopBefore
               /\ highestPlatformY' = BatchRow(GeneratedNow)]_vars

\* A jump from the jump-through platform has taken the camera high enough:
\* two platforms have been generated above the scene, whose highest row was
\* -46, the first 3 rows above it and the second 2 to 4 rows higher.
BatchOfTwoAboveTheScene ==
   /\ gameState = Playing
   /\ resets = <<>>
   /\ platformsGenerated = Len(ThroughScene) + 2
   /\ Len(platforms) >= 2
   /\ worldToTileY(platforms[Len(platforms) - 1].y) = -46 - 3
   /\ worldToTileY(platforms[Len(platforms)].y) = highestPlatformY
   /\ highestPlatformY \in -46 - 7 .. -46 - 5

\* The smallest tile row of the platforms of the list.
HighestRow(list) ==
   CHOOSE r \in {worldToTileY(list[i].y) : i \in 1 .. Len(list)} :
      \A i \in 1 .. Len(list) : r <= worldToTileY(list[i].y)

\* C34: highestPlatformY is the smallest tile row of the platforms created
\* since the last initialisation, static or generated.  Cleanup removes
\* only the lowest platforms, so this is the smallest row of the list.
HighestPlatformTracked ==
   Len(platforms) > 0 => highestPlatformY = HighestRow(platforms)

\* Some button is down in the frame's mask and was up in the mask of the
\* frame before.
NewPress == prevGamepad' \ prevGamepad # {}

\* C35: the game goes from TitleScreen to Playing and from GameOver to
\* TitleScreen only on a frame with a new press; a frame on which buttons
\* are merely held makes neither transition, so a button held through the
\* change from GameOver to TitleScreen does not start the game.
TransitionsNeedNewPress ==
   [][(\/ (gameState = TitleScreen /\ gameState' = Playing)
       \/ (gameState = GameOver /\ gameState' = TitleScreen))
         => NewPress]_vars

\* The game is back on the title screen after a game over, and the button
\* whose press ended the game over is still held.
HeldThroughRetry ==
   /\ gameState = TitleScreen
   /\ resets = <<>>
   /\ prevGamepad # {}
   /\ platformsGenerated > 0

\* C36: the platform list never holds more than MAX_PLATFORMS platforms.
PlatformCountBounded == Len(platforms) <= MAX_PLATFORMS

\* C37: the landing tone is played only on a frame that takes the player
\* from not grounded at the end of the previous frame to grounded at the
\* end of this one, never on a frame on which the player keeps standing.
LandingToneOnlyOnLanding ==
   [][HasTone(tones', "land")
         => (~player.isOnGround /\ player'.isOnGround)]_vars

\* The globals of a Playing frame as checkLavaCollision finds them.
BeforeCollision ==
   updatePlayingToLava([World EXCEPT !.tones = <<>>, !.resets = <<>>],
                       prevGamepad')

\* Some drop's circle intersects the player's rectangle in the coordinates
\* in which both are drawn: the drop at its y, the player at y - cameraY.
DropTouchesDrawnPlayer(w) ==
   \E i \in 1 .. Len(w.lavaDrops) :
      touchesDrop([w.player EXCEPT !.y = w.player.y - w.cameraY],
                  w.lavaDrops[i])

\* C38: on a Playing frame whose player is clear of the lava pool,
\* checkLavaCollision ends the game because of a drop exactly when a drop's
\* circle intersects the player's rectangle as both are drawn.
DropCollisionAsDrawn ==
   [][(/\ gameState = Playing
       /\ \E w \in {BeforeCollision} : ~touchesPool(w.player, w.lavaY))
         => \E w \in {BeforeCollision} :
               (\E i \in 1 .. Len(resets') : resets'[i] = "drop")
                  <=> DropTouchesDrawnPlayer(w)]_vars

\* C39: the height shown on the game-over screen is the height derived
\* from the player's y at the moment of death: on the frame that ends the
\* game, the height shown for the player of the GameOver state equals the
\* height of the player as checkLavaCollision found it.
HeightShownIsHeightAtDeath ==
   [][(gameState = Playing /\ gameState' = GameOver)
         => \E w \in {BeforeCollision} :
               shownHeight(player') = shownHeight(w.player)]_vars

\* C40: a reset leaves no jump pending.  The title screen is entered only
\* by a reset and is left on the frame of the first new press, so a jump
\* impulse on a frame that begins in TitleScreen comes from no press made
\* after the reset: there is no such frame.
NoJumpPendingAfterReset ==
   [][gameState = TitleScreen => ~JumpImpulse]_vars

====
